---- MODULE Spec2Model ----
(***************************************************************************)
(* A model of the Salesforce MCP server: the tools of src/tools/*.py, the  *)
(* GraphQL transport of src/client.py (SalesforceClient.execute_query),    *)
(* the process-wide client handle of src/main.py and the date-range        *)
(* resolver get_date_range of src/tools/opportunities.py.                  *)
(*                                                                         *)
(* A GraphQL document is a sequence of tokens (strings).  A string that a  *)
(* tool interpolates into the document contributes its characters, one     *)
(* token each, so that a double quote of the value is the same token as a  *)
(* double quote of the template, as in the f-strings of the source.        *)
(***************************************************************************)
EXTENDS Integers, Sequences, FiniteSets, TLC

VARIABLES
    server,             \* the process: starting, serving, failed
    env,                \* the two configuration values of the process
    salesforce_client,  \* the process-wide handle of main.py
    pc,                 \* the tool call: idle, inflight, done
    tool,               \* name of the tool called
    args,               \* its arguments
    doc,                \* the request in flight
    sent,               \* the requests posted by the call, in order
    resp,               \* the answer to the last request
    exec,               \* what execute_query returned or raised for it
    result,             \* what the call gave its caller
    now,                \* datetime.now(), a calendar date
    range_type,         \* argument of get_date_range
    date_result,        \* what get_date_range returned or raised
    records,            \* the records of an answer, as a tool reads them
    report,             \* what the tool makes of them
    invocations,        \* the tool calls that run concurrently
    constructed         \* how many SalesforceClient objects were constructed

vars == <<server, env, salesforce_client, pc, tool, args, doc, sent, resp,
          exec, result, now, range_type, date_result, records, report,
          invocations, constructed>>

----------------------------------------------------------------------------
(* Bounds of the model *)

\* Reference years 2023 .. 2022 + NumYears (2024 is a leap year).
NumYears == 3
\* Longest caller-supplied string (stage, industry, object name, query).
MaxStrLen == 2
\* Longest errors list of a response body.
MaxErrors == 2

None == "None"
Range(s) == {s[i] : i \in 1..Len(s)}

----------------------------------------------------------------------------
(* Calendar dates: datetime, timedelta and replace of the standard library *)

RefYears == 2023 .. (2022 + NumYears)

IsLeap(y) == (y % 4 = 0 /\ y % 100 # 0) \/ y % 400 = 0

DaysInMonth(y, m) ==
    IF m = 2 THEN (IF IsLeap(y) THEN 29 ELSE 28)
    ELSE IF m \in {4, 6, 9, 11} THEN 30 ELSE 31

ValidDate(d) ==
    /\ d \in [y : Int, m : Int, d : Int]
    /\ d.y >= 1 /\ d.y <= 9999
    /\ d.m \in 1..12
    /\ d.d \in 1..DaysInMonth(d.y, d.m)

\* Days before 1 January of year y, counted from 1 January of year 1.
DaysBeforeYear(y) ==
    (y - 1) * 365 + ((y - 1) \div 4) - ((y - 1) \div 100) + ((y - 1) \div 400)

RECURSIVE DaysBeforeMonth(_, _)
DaysBeforeMonth(y, m) ==
    IF m = 1 THEN 0 ELSE DaysBeforeMonth(y, m - 1) + DaysInMonth(y, m - 1)

\* date.toordinal(): 1 January of year 1 is day 1.
ToOrdinal(d) == DaysBeforeYear(d.y) + DaysBeforeMonth(d.y, d.m) + d.d

\* date.fromordinal(): the year, then the month, then the day of ordinal n.
YearOfOrdinal(n) ==
    CHOOSE yy \in 2000..2100 :
        DaysBeforeYear(yy) < n /\ n <= DaysBeforeYear(yy + 1)

\* The month holding day r (1-based) of year y.
MonthOfDay(y, r) ==
    CHOOSE mm \in 1..12 :
        DaysBeforeMonth(y, mm) < r
        /\ r <= DaysBeforeMonth(y, mm) + DaysInMonth(y, mm)

DateOfDay(y, m, r) == [y |-> y, m |-> m, d |-> r - DaysBeforeMonth(y, m)]

DateInYear(y, r) == DateOfDay(y, MonthOfDay(y, r), r)

FromOrdinal(n) == DateInYear(YearOfOrdinal(n), n - DaysBeforeYear(YearOfOrdinal(n)))

\* A weekday numbered from Sunday.
WeekdayFromSunday(d) == ToOrdinal(d) % 7

\* datetime.weekday(): Monday is 0.
Weekday(d) == (ToOrdinal(d) + 6) % 7

\* The marker of a ValueError raised by datetime.replace.
InvalidDate == [y |-> 0, m |-> 0, d |-> 0]

\* d + timedelta(days=n)
AddDays(d, n) ==
    IF d = InvalidDate THEN InvalidDate ELSE FromOrdinal(ToOrdinal(d) + n)

\* d.replace(year=y, month=m, day=day): ValueError when no such date exists.
Replace(d, y, m, day) ==
    IF d = InvalidDate THEN InvalidDate
    ELSE LET r == [y |-> y, m |-> m, d |-> day]
         IN  IF ValidDate(r) THEN r ELSE InvalidDate

\* d.replace(day=day)
ReplaceDay(d, day) == Replace(d, d.y, d.m, day)

\* strftime("%d"), strftime("%m")
Pad2(n) == IF n < 10 THEN "0" \o ToString(n) ELSE ToString(n)

\* strftime("%Y-%m-%d")
FormatDate(d) == ToString(d.y) \o "-" \o Pad2(d.m) \o "-" \o Pad2(d.d)

RefDates == {d \in [y : RefYears, m : 1..12, d : 1..31] : ValidDate(d)}

----------------------------------------------------------------------------
(* get_date_range, src/tools/opportunities.py *)

\* The members of the enum DateRange.
DateRange ==
    {"THIS_WEEK", "LAST_WEEK", "THIS_MONTH", "LAST_MONTH",
     "THIS_QUARTER", "LAST_QUARTER", "THIS_YEAR", "LAST_YEAR"}

\* An argument that is no member of DateRange.
NotADateRange == "NEXT_WEEK"

RangeThisWeek(n) ==
    LET start == AddDays(n, 0 - Weekday(n))
    IN  <<start, AddDays(start, 6)>>

RangeLastWeek(n) ==
    LET start == AddDays(n, 0 - (Weekday(n) + 7))
    IN  <<start, AddDays(start, 6)>>

\* (start + timedelta(days=32)).replace(day=1) - timedelta(days=1)
MonthEndShort(start) == AddDays(ReplaceDay(AddDays(start, 28), 1), -1)
MonthEnd(start) == AddDays(ReplaceDay(AddDays(start, 32), 1), -1)

RangeThisMonth(n) ==
    LET start == ReplaceDay(n, 1)
    IN  <<start, MonthEnd(start)>>

\* The month of the day 30 days before the reference date.
RangeLastMonthBy30(n) ==
    <<ReplaceDay(AddDays(n, -30), 1), MonthEnd(ReplaceDay(AddDays(n, -30), 1))>>

RangeLastMonth(n) ==
    <<ReplaceDay(AddDays(ReplaceDay(n, 1), -1), 1), AddDays(ReplaceDay(n, 1), -1)>>

\* A step of 89 days in the place of 95.
QuarterEndShort(start) == AddDays(ReplaceDay(AddDays(start, 89), 1), -1)

\* (start + timedelta(days=95)).replace(day=1) - timedelta(days=1)
QuarterEnd(start) == AddDays(ReplaceDay(AddDays(start, 95), 1), -1)

RangeThisQuarter(n) ==
    LET quarter == ((n.m - 1) \div 3) + 1
        start == Replace(n, n.y, (quarter - 1) * 3 + 1, 1)
    IN  <<start, QuarterEnd(start)>>

RangeLastQuarter(n) ==
    LET quarter == (n.m - 1) \div 3
        start == IF quarter = 0
                 THEN Replace(n, n.y - 1, 10, 1)
                 ELSE Replace(n, n.y, (quarter - 1) * 3 + 1, 1)
    IN  <<start, QuarterEnd(start)>>

RangeThisYear(n) == <<Replace(n, n.y, 1, 1), Replace(n, n.y, 12, 31)>>

RangeLastYear(n) == <<Replace(n, n.y - 1, 1, 1), Replace(n, n.y - 1, 12, 31)>>

\* src/tools/opportunities.py, line 56: the tuple returned, start_date and
\* end_date, with the dates start and end it is formatted from; or the
\* ValueError of a failed replace.
DateWindow(w) ==
    IF w[1] = InvalidDate \/ w[2] = InvalidDate
    THEN [ok |-> FALSE, error |-> "ValueError: date out of range"]
    ELSE [ok |-> TRUE, start |-> w[1], end |-> w[2],
          start_date |-> FormatDate(w[1]), end_date |-> FormatDate(w[2])]

\* Returns [ok, start, end], or [ok = FALSE, error] for a raised ValueError.
get_date_range(rt, n) ==
    CASE rt = "THIS_WEEK" -> DateWindow(RangeThisWeek(n))
      [] rt = "LAST_WEEK" -> DateWindow(RangeLastWeek(n))
      [] rt = "THIS_MONTH" -> DateWindow(RangeThisMonth(n))
      [] rt = "LAST_MONTH" -> DateWindow(RangeLastMonth(n))
      [] rt = "THIS_QUARTER" -> DateWindow(RangeThisQuarter(n))
      [] rt = "LAST_QUARTER" -> DateWindow(RangeLastQuarter(n))
      [] rt = "THIS_YEAR" -> DateWindow(RangeThisYear(n))
      [] rt = "LAST_YEAR" -> DateWindow(RangeLastYear(n))
      [] OTHER -> [ok |-> FALSE, error |-> "ValueError: Unsupported date range"]

NoResult == [ok |-> FALSE, error |-> "not called"]

----------------------------------------------------------------------------
(* Strings of the caller and their formatting into a document *)

\* Characters a caller-supplied string is made of: a letter, a double quote
\* and a closing brace.
Chars == {"a", "\"", "}"}

RECURSIVE SeqsUpTo(_, _)
SeqsUpTo(S, n) ==
    IF n = 0 THEN {<<>>}
    ELSE LET shorter == SeqsUpTo(S, n - 1)
         IN  shorter \cup {Append(s, c) : s \in shorter, c \in S}

Strs == SeqsUpTo(Chars, MaxStrLen)

\* The value of each member of DateRange, a string, as its characters.
DateRangeValue(member) ==
    CASE member = "THIS_WEEK" ->
        <<"t", "h", "i", "s", "_", "w", "e", "e", "k">>
      [] member = "LAST_WEEK" ->
        <<"l", "a", "s", "t", "_", "w", "e", "e", "k">>
      [] member = "THIS_MONTH" ->
        <<"t", "h", "i", "s", "_", "m", "o", "n", "t", "h">>
      [] member = "LAST_MONTH" ->
        <<"l", "a", "s", "t", "_", "m", "o", "n", "t", "h">>
      [] member = "THIS_QUARTER" ->
        <<"t", "h", "i", "s", "_", "q", "u", "a", "r", "t", "e", "r">>
      [] member = "LAST_QUARTER" ->
        <<"l", "a", "s", "t", "_", "q", "u", "a", "r", "t", "e", "r">>
      [] member = "THIS_YEAR" ->
        <<"t", "h", "i", "s", "_", "y", "e", "a", "r">>
      [] member = "LAST_YEAR" ->
        <<"l", "a", "s", "t", "_", "y", "e", "a", "r">>

\* str.lower() on one character.
LowerChar(c) ==
    CASE c = "A" -> "a"
      [] c = "B" -> "b"
      [] c = "C" -> "c"
      [] c = "D" -> "d"
      [] c = "E" -> "e"
      [] c = "F" -> "f"
      [] c = "G" -> "g"
      [] c = "H" -> "h"
      [] c = "I" -> "i"
      [] c = "J" -> "j"
      [] c = "K" -> "k"
      [] c = "L" -> "l"
      [] c = "M" -> "m"
      [] c = "N" -> "n"
      [] c = "O" -> "o"
      [] c = "P" -> "p"
      [] c = "Q" -> "q"
      [] c = "R" -> "r"
      [] c = "S" -> "s"
      [] c = "T" -> "t"
      [] c = "U" -> "u"
      [] c = "V" -> "v"
      [] c = "W" -> "w"
      [] c = "X" -> "x"
      [] c = "Y" -> "y"
      [] c = "Z" -> "z"
      [] OTHER -> c

\* f"{limit}" of an int
FmtInt(n) == <<ToString(n)>>

\* f"{min_amount}" of a float holding a whole number
FmtFloat(x) == <<ToString(x) \o ".0">>

\* sep.join(parts), parts a sequence of token sequences
RECURSIVE Join(_, _)
Join(parts, sep) ==
    IF parts = <<>> THEN <<>>
    ELSE IF Len(parts) = 1 THEN parts[1]
    ELSE parts[1] \o sep \o Join(Tail(parts), sep)

\* str.lower()
Lower(s) == [i \in 1..Len(s) |-> LowerChar(s[i])]

\* str.replace(" ", "_")
ReplaceSpaces(s) == [i \in 1..Len(s) |-> IF s[i] = " " THEN "_" ELSE s[i]]

\* str.strip()
RECURSIVE LStrip(_)
LStrip(s) == IF s # <<>> /\ Head(s) = " " THEN LStrip(Tail(s)) ELSE s
RECURSIVE RStrip(_)
RStrip(s) ==
    IF s # <<>> /\ s[Len(s)] = " " THEN RStrip(SubSeq(s, 1, Len(s) - 1)) ELSE s
Strip(s) == RStrip(LStrip(s))

\* A lookup that falls back to a member for an unknown value.
DateRangeOrDefault(value) ==
    IF \E member \in DateRange : DateRangeValue(member) = value
    THEN CHOOSE member \in DateRange : DateRangeValue(member) = value
    ELSE "LAST_QUARTER"

\* The enum lookup DateRange(value): the member, or None for the ValueError.
DateRangeOf(value) ==
    IF \E member \in DateRange : DateRangeValue(member) = value
    THEN CHOOSE member \in DateRange : DateRangeValue(member) = value
    ELSE None

\* [range_type.value for range_type in DateRange]
ValidOptions == {DateRangeValue(member) : member \in DateRange}

\* Values of time_period used as inputs.
TP_last_quarter ==
    <<"l", "a", "s", "t", "_", "q", "u", "a", "r", "t", "e", "r">>
TP_this_month ==
    <<"t", "h", "i", "s", "_", "m", "o", "n", "t", "h">>
TP_Last_Quarter ==
    <<"L", "a", "s", "t", " ", "Q", "u", "a", "r", "t", "e", "r">>
TP_next_week ==
    <<"n", "e", "x", "t", "_", "w", "e", "e", "k">>
TP_THIS_YEAR ==
    <<"T", "H", "I", "S", "_", "Y", "E", "A", "R">>
TP_this_year_padded ==
    <<"t", "h", "i", "s", "_", "y", "e", "a", "r", " ">>

----------------------------------------------------------------------------
(* The filter conditions and where clauses of the tools *)

\* src/tools/opportunities.py, line 102
CloseDateCondition(start_date, end_date) ==
    <<"CloseDate:", "{", "range:", "{", "gte:", "\"", start_date, "\"", ",",
      "lte:", "\"", end_date, "\"", "}", "}">>

\* src/tools/opportunities.py, line 110
StageCondition(stage) ==
    <<"StageName:", "{", "eq:", "\"">> \o stage \o <<"\"", "}">>

\* src/tools/opportunities.py, line 113
AmountCondition(min_amount) ==
    <<"Amount:", "{", "range:", "{", "gte:">> \o FmtFloat(min_amount)
    \o <<"}", "}">>

\* src/tools/opportunities.py, line 115, with every condition list wrapped
OppWhereClauseAlways(conditions) ==
    <<"where:", "{">> \o Join(conditions, <<",">>) \o <<"}">>

\* src/tools/opportunities.py, line 115
OppWhereClause(conditions) ==
    IF conditions # <<>>
    THEN <<"where:", "{">> \o Join(conditions, <<",">>) \o <<"}">>
    ELSE <<>>

\* src/tools/accounts.py, lines 43-45
AccWhereClause(industry) ==
    IF industry # <<>>
    THEN <<"where:", "{", "Industry:", "{", "eq:", "\"">> \o industry
         \o <<"\"", "}", "}">>
    ELSE <<>>

\* src/tools/business_analysis_tools.py, line 173
StageNeCondition(stage) ==
    <<"{", "StageName:", "{", "ne:", "\"">> \o stage \o <<"\"", "}", "}">>

\* src/tools/business_analysis_tools.py, lines 168-176; exclude_stages is
\* <<>> for None and <<list>> for a list.
StageWhereClause(exclude_stages) ==
    IF exclude_stages # <<>> /\ exclude_stages[1] # <<>>
    THEN LET stages == exclude_stages[1]
             stage_conditions ==
                 [i \in 1..Len(stages) |-> StageNeCondition(stages[i])]
         IN  IF Len(stage_conditions) = 1
             THEN <<"where:">> \o stage_conditions[1]
             ELSE <<>>
    ELSE <<>>

----------------------------------------------------------------------------
(* The documents of the tools and of the client methods *)

\* src/client.py, lines 67-95
GetOpportunityQuery ==
    <<"query", "GetOpportunity", "(", "$opportunityId:", "ID!", ")",
      "{", "uiapi", "{", "query", "{", "Opportunity", "(",
      "where:", "{", "Id:", "{", "eq:", "$opportunityId", "}", "}",
      ")", "{", "edges", "{", "node", "{", "Id", "Name", "{",
      "value", "}", "Amount", "{", "value", "displayValue", "}",
      "CloseDate", "{", "value", "}", "StageName", "{", "value",
      "}", "Probability", "{", "value", "}", "Description", "{",
      "value", "}", "Type", "{", "value", "}", "LeadSource", "{",
      "value", "}", "Account", "{", "Id", "Name", "{", "value",
      "}", "}", "Owner", "{", "Id", "Name", "{", "value", "}", "}",
      "}", "}", "}", "}", "}", "}">>

\* src/client.py, lines 118-147
SearchOpportunitiesQuery(limit) ==
    <<"query", "SearchOpportunities", "{", "uiapi", "{", "query", "{",
      "Opportunity", "(", "first:">>
    \o limit
    \o <<"orderBy:", "{", "LastModifiedDate:", "{", "order:", "DESC", "}",
      "}", ")", "{", "edges", "{", "node", "{", "Id", "Name", "{",
      "value", "}", "Amount", "{", "value", "displayValue", "}",
      "CloseDate", "{", "value", "}", "StageName", "{", "value",
      "}", "Probability", "{", "value", "}", "Account", "{", "Id",
      "Name", "{", "value", "}", "}", "Owner", "{", "Id", "Name",
      "{", "value", "}", "}", "}", "}", "totalCount", "}", "}",
      "}", "}">>

\* src/client.py, lines 165-189
GetRecentOpportunitiesQuery(limit) ==
    <<"query", "GetRecentOpportunities", "{", "uiapi", "{", "query",
      "{", "Opportunity", "(", "first:">>
    \o limit
    \o <<"orderBy:", "{", "LastModifiedDate:", "{", "order:", "DESC", "}",
      "}", ")", "{", "edges", "{", "node", "{", "Id", "Name", "{",
      "value", "}", "Amount", "{", "value", "displayValue", "}",
      "CloseDate", "{", "value", "}", "StageName", "{", "value",
      "}", "Probability", "{", "value", "}", "Account", "{", "Id",
      "Name", "{", "value", "}", "}", "}", "}", "}", "}", "}", "}">>

\* src/client.py, lines 207-231
GetAccountQuery ==
    <<"query", "GetAccount", "(", "$accountId:", "ID!", ")", "{",
      "uiapi", "{", "query", "{", "Account", "(", "where:", "{",
      "Id:", "{", "eq:", "$accountId", "}", "}", ")", "{", "edges",
      "{", "node", "{", "Id", "Name", "{", "value", "}", "Type",
      "{", "value", "}", "Industry", "{", "value", "}",
      "AnnualRevenue", "{", "value", "displayValue", "}",
      "NumberOfEmployees", "{", "value", "}", "Phone", "{",
      "value", "}", "Website", "{", "value", "}", "BillingAddress",
      "{", "BillingCity", "{", "value", "}", "BillingState", "{",
      "value", "}", "BillingCountry", "{", "value", "}", "}", "}",
      "}", "}", "}", "}", "}">>

\* src/client.py, lines 249-272
SearchAccountsQuery(limit) ==
    <<"query", "SearchAccounts", "{", "uiapi", "{", "query", "{",
      "Account", "(", "first:">>
    \o limit
    \o <<"orderBy:", "{", "Name:", "{", "order:", "ASC", "}", "}", ")",
      "{", "edges", "{", "node", "{", "Id", "Name", "{", "value",
      "}", "Type", "{", "value", "}", "Industry", "{", "value",
      "}", "AnnualRevenue", "{", "value", "displayValue", "}",
      "NumberOfEmployees", "{", "value", "}", "Phone", "{",
      "value", "}", "Website", "{", "value", "}", "}", "}",
      "totalCount", "}", "}", "}", "}">>

\* src/client.py, lines 290-310
GetRecentAccountsQuery(limit) ==
    <<"query", "GetRecentAccounts", "{", "uiapi", "{", "query", "{",
      "Account", "(", "first:">>
    \o limit
    \o <<"orderBy:", "{", "LastModifiedDate:", "{", "order:", "DESC", "}",
      "}", ")", "{", "edges", "{", "node", "{", "Id", "Name", "{",
      "value", "}", "Type", "{", "value", "}", "Industry", "{",
      "value", "}", "AnnualRevenue", "{", "value", "displayValue",
      "}", "NumberOfEmployees", "{", "value", "}", "}", "}", "}",
      "}", "}", "}">>

\* src/tools/opportunities.py, lines 119-153
GetOpportunitiesQuery(where_clause, limit) ==
    <<"query", "GetOpportunities", "{", "uiapi", "{", "query", "{",
      "Opportunity", "(">>
    \o where_clause
    \o <<"first:">>
    \o limit
    \o <<"orderBy:", "{", "CloseDate:", "{", "order:", "DESC", "}", "}",
      ")", "{", "edges", "{", "node", "{", "Id", "Name", "{",
      "value", "}", "Amount", "{", "value", "displayValue", "}",
      "CloseDate", "{", "value", "}", "StageName", "{", "value",
      "}", "Probability", "{", "value", "}", "Account", "{", "Id",
      "Name", "{", "value", "}", "}", "Owner", "{", "Id", "Name",
      "{", "value", "}", "}", "}", "}", "totalCount", "pageInfo",
      "{", "hasNextPage", "endCursor", "}", "}", "}", "}", "}">>

\* src/tools/accounts.py, lines 49-78
GetAccountsQuery(where_clause, limit) ==
    <<"query", "GetAccounts", "{", "uiapi", "{", "query", "{",
      "Account", "(">>
    \o where_clause
    \o <<"first:">>
    \o limit
    \o <<"orderBy:", "{", "Name:", "{", "order:", "ASC", "}", "}", ")",
      "{", "edges", "{", "node", "{", "Id", "Name", "{", "value",
      "}", "Type", "{", "value", "}", "Industry", "{", "value",
      "}", "AnnualRevenue", "{", "value", "displayValue", "}",
      "NumberOfEmployees", "{", "value", "}", "Phone", "{",
      "value", "}", "Website", "{", "value", "}", "BillingAddress",
      "{", "BillingCity", "{", "value", "}", "BillingState", "{",
      "value", "}", "BillingCountry", "{", "value", "}", "}", "}",
      "}", "totalCount", "}", "}", "}", "}">>

\* src/tools/schema.py, lines 72-83
GetObjectInfoQuery ==
    <<"query", "GetObjectInfo", "{", "uiapi", "{", "objectInfos", "(",
      "apiNames:", "[", "\"", "Account", "\"", ",", "\"",
      "Opportunity", "\"", ",", "\"", "Contact", "\"", ",", "\"",
      "Lead", "\"", ",", "\"", "Case", "\"", "]", ")", "{",
      "ApiName", "label", "labelPlural", "queryable", "custom",
      "keyPrefix", "}", "}", "}">>

\* src/tools/schema.py, lines 187-198
GetObjectFieldsQuery(object_name) ==
    <<"query", "GetObjectFields", "{", "uiapi", "{", "objectInfo", "(",
      "apiName:", "\"">>
    \o object_name
    \o <<"\"", ")", "{", "ApiName", "label", "labelPlural", "queryable",
      "custom", "keyPrefix", "}", "}", "}">>

\* src/tools/business_analysis_tools.py, lines 30-62
HighValuePipelineQuery(min_amount, limit) ==
    <<"query", "HighValuePipeline", "{", "uiapi", "{", "query", "{",
      "Opportunity", "(", "where:", "{", "Amount:", "{", "gte:">>
    \o min_amount
    \o <<"}", "}", "first:">>
    \o limit
    \o <<"orderBy:", "{", "Amount:", "{", "order:", "DESC", "}", "}", ")",
      "{", "edges", "{", "node", "{", "Id", "Name", "{", "value",
      "}", "Amount", "{", "value", "displayValue", "}",
      "CloseDate", "{", "value", "}", "StageName", "{", "value",
      "}", "Probability", "{", "value", "}", "Account", "{", "Id",
      "Name", "{", "value", "}", "Industry", "{", "value", "}",
      "Type", "{", "value", "}", "}", "Owner", "{", "Id", "Name",
      "{", "value", "}", "}", "}", "}", "totalCount", "}", "}",
      "}", "}">>

\* src/tools/business_analysis_tools.py, lines 179-208
SalesStageAnalysisQuery(where_clause, limit) ==
    <<"query", "SalesStageAnalysis", "{", "uiapi", "{", "query", "{",
      "Opportunity", "(">>
    \o where_clause
    \o <<"first:">>
    \o limit
    \o <<"orderBy:", "{", "Amount:", "{", "order:", "DESC", "}", "}", ")",
      "{", "edges", "{", "node", "{", "Id", "Name", "{", "value",
      "}", "Amount", "{", "value", "displayValue", "}",
      "CloseDate", "{", "value", "}", "StageName", "{", "value",
      "}", "Probability", "{", "value", "}", "Account", "{",
      "Name", "{", "value", "}", "Industry", "{", "value", "}",
      "}", "Owner", "{", "Name", "{", "value", "}", "}", "}", "}",
      "totalCount", "}", "}", "}", "}">>

\* src/tools/business_analysis_tools.py, lines 307-342
CompletePipelineReportQuery(min_amount) ==
    <<"query", "CompletePipelineReport", "{", "uiapi", "{", "query",
      "{", "Opportunity", "(", "where:", "{", "Amount:", "{",
      "gte:">>
    \o min_amount
    \o <<"}", "}", "first:", "100", "orderBy:", "{", "Amount:", "{",
      "order:", "DESC", "}", "}", ")", "{", "edges", "{", "node",
      "{", "Id", "Name", "{", "value", "}", "Amount", "{", "value",
      "displayValue", "}", "CloseDate", "{", "value", "}",
      "StageName", "{", "value", "}", "Probability", "{", "value",
      "}", "Type", "{", "value", "}", "LeadSource", "{", "value",
      "}", "Account", "{", "Id", "Name", "{", "value", "}",
      "Industry", "{", "value", "}", "Type", "{", "value", "}",
      "AnnualRevenue", "{", "value", "displayValue", "}", "}",
      "Owner", "{", "Id", "Name", "{", "value", "}", "}", "}", "}",
      "totalCount", "}", "}", "}", "}">>

\* src/tools/business_analysis_tools.py, lines 468-489
AccountAnalysisQuery ==
    <<"query", "AccountAnalysis", "{", "uiapi", "{", "query", "{",
      "Account", "(", "first:", "50", "orderBy:", "{", "Name:",
      "{", "order:", "ASC", "}", "}", ")", "{", "edges", "{",
      "node", "{", "Id", "Name", "{", "value", "}", "Type", "{",
      "value", "}", "Industry", "{", "value", "}", "AnnualRevenue",
      "{", "value", "displayValue", "}", "NumberOfEmployees", "{",
      "value", "}", "}", "}", "totalCount", "}", "}", "}", "}">>

\* src/tools/business_analysis_tools.py, lines 497-520
OpportunityAnalysisQuery ==
    <<"query", "OpportunityAnalysis", "{", "uiapi", "{", "query", "{",
      "Opportunity", "(", "first:", "100", "orderBy:", "{",
      "Amount:", "{", "order:", "DESC", "}", "}", ")", "{",
      "edges", "{", "node", "{", "Id", "Name", "{", "value", "}",
      "Amount", "{", "value", "displayValue", "}", "StageName",
      "{", "value", "}", "Account", "{", "Id", "Name", "{",
      "value", "}", "}", "}", "}", "totalCount", "}", "}", "}",
      "}">>

----------------------------------------------------------------------------
(* The transport: SalesforceClient.execute_query, src/client.py *)

NoBody == [errors |-> <<>>, data |-> "null"]

\* One entry of the errors list of a body: message is <<>> when the key is
\* absent; extensions is absent, null, an object without classification
\* ("empty") or an object with one ("classified").
ErrorKinds ==
    {[message |-> <<"m">>, extensions |-> "absent"],
     [message |-> <<"m">>, extensions |-> "classified"],
     [message |-> <<>>, extensions |-> "absent"],
     [message |-> <<"m">>, extensions |-> "null"]}

\* A parsed body {data, errors?}: errors is <<>> when the key is absent and
\* <<list>> when present; data is null, holds no record ("empty") or holds
\* one well-formed record ("one").
Bodies ==
    [errors : {<<>>} \cup {<<l>> : l \in SeqsUpTo(ErrorKinds, MaxErrors)},
     data : {"null", "empty", "one"}]

Statuses == {200, 201, 302, 404, 500}

\* What the remote service, or the network, answers to one request.
Responses ==
    {[kind |-> k, status |-> 0, body |-> NoBody] :
        k \in {"ConnectError", "ReadTimeout"}}
    \cup [kind : {"response"}, status : Statuses, body : Bodies]

\* The outcome of a call: the value returned, or the exception raised.
Ok(body) == [ok |-> TRUE, exc |-> "", msg |-> <<>>, body |-> body]
Fail(exc, msg) == [ok |-> FALSE, exc |-> exc, msg |-> msg, body |-> NoBody]

AttributeErrorNone ==
    Fail("AttributeError", <<"'NoneType' object has no attribute 'get'">>)

\* A check that lets every status below 400 through.
IsNotErrorStatus(status) == status >= 200 /\ status <= 399

\* response.raise_for_status(): raises for every status that is not 2xx.
IsSuccessStatus(status) == status >= 200 /\ status <= 299

\* A check of the presence of the key alone.
ErrorsPresent(body) == body.errors # <<>>

\* data.get("errors") is truthy: the key is present with a non-empty list.
ErrorsTruthy(body) == body.errors # <<>> /\ body.errors[1] # <<>>

\* The message built for one error, src/client.py lines 44-49.
ErrorMessage(error) ==
    LET message == IF error.message = <<>>
                   THEN "Unknown GraphQL error" ELSE error.message[1]
        classification == IF error.extensions = "classified"
                          THEN "ValidationError" ELSE ""
    IN  IF classification # ""
        THEN message \o " (Classification: " \o classification \o ")"
        ELSE message

\* src/client.py lines 41-54: the loop raises AttributeError at an error whose
\* extensions is null, otherwise Exception with the joined messages.
GraphQLErrors(errors) ==
    IF \E i \in 1..Len(errors) : errors[i].extensions = "null"
    THEN AttributeErrorNone
    ELSE Fail("Exception",
              <<"GraphQL errors: ">>
              \o Join([i \in 1..Len(errors) |-> <<ErrorMessage(errors[i])>>],
                      <<"; ">>))

\* src/client.py lines 57-59
HttpStatusError(status) ==
    Fail("Exception", <<"API request failed: ", ToString(status)>>)

\* execute_query from the answer to its one request on: the outcome for
\* the answer r.
execute_query(r) ==
    IF r.kind # "response" THEN Fail(r.kind, <<r.kind>>)
    ELSE IF ~IsSuccessStatus(r.status) THEN HttpStatusError(r.status)
    ELSE LET data == r.body
         IN  IF ErrorsTruthy(data)
             THEN GraphQLErrors(data.errors[1])
             ELSE Ok(data)

----------------------------------------------------------------------------
(* The process-wide handle: get_salesforce_client, src/main.py *)

Envs == [url : {"", "https://example.my.salesforce.com"}, token : {"", "token"}]

\* SalesforceClient.__init__
SalesforceClient(instance_url, access_token) ==
    [instance_url |-> instance_url, access_token |-> access_token,
     base_url |-> instance_url \o "/services/data/v59.0/graphql"]

NoClient == [instance_url |-> "", access_token |-> "", base_url |-> ""]

\* The handle when every call constructs its own.
get_salesforce_client_per_call(current, e) ==
    IF e.url = ""
    THEN [ok |-> FALSE, exc |-> "ValueError",
          msg |-> <<"SALESFORCE_INSTANCE_URL environment variable is required">>,
          client |-> NoClient, created |-> FALSE]
    ELSE IF e.token = ""
    THEN [ok |-> FALSE, exc |-> "ValueError",
          msg |-> <<"SALESFORCE_ACCESS_TOKEN environment variable is required">>,
          client |-> NoClient, created |-> FALSE]
    ELSE [ok |-> TRUE, exc |-> "", msg |-> <<>>,
          client |-> SalesforceClient(e.url, e.token), created |-> TRUE]

\* Returns [ok, exc, msg, client, created]: the handle to use, created when
\* there is none yet (created tells whether SalesforceClient was
\* constructed), or the ValueError raised.
get_salesforce_client(current, e) ==
    IF current # NoClient
    THEN [ok |-> TRUE, exc |-> "", msg |-> <<>>, client |-> current,
          created |-> FALSE]
    ELSE IF e.url = ""
    THEN [ok |-> FALSE, exc |-> "ValueError",
          msg |-> <<"SALESFORCE_INSTANCE_URL environment variable is required">>,
          client |-> NoClient, created |-> FALSE]
    ELSE IF e.token = ""
    THEN [ok |-> FALSE, exc |-> "ValueError",
          msg |-> <<"SALESFORCE_ACCESS_TOKEN environment variable is required">>,
          client |-> NoClient, created |-> FALSE]
    ELSE [ok |-> TRUE, exc |-> "", msg |-> <<>>,
          client |-> SalesforceClient(e.url, e.token), created |-> TRUE]

----------------------------------------------------------------------------
(* What a tool gives its caller *)

\* A value returned: its Python type, the keys of a dict, the value of its
\* success key (FALSE when there is none), and for an error its type name,
\* message and valid_options.
Ret(type, keys, success) ==
    [kind |-> "return", type |-> type, keys |-> keys, success |-> success,
     error_type |-> "", error |-> <<>>, valid_options |-> {}]

\* {"success": False, "error": str(e), "error_type": type(e).__name__}
FailurePayload(ex, more_keys) ==
    [kind |-> "return", type |-> "dict",
     keys |-> {"success", "error", "error_type"} \cup more_keys,
     success |-> FALSE, error_type |-> ex.exc, error |-> ex.msg,
     valid_options |-> {}]

\* The exception leaves the tool function.
Raise(ex) ==
    [kind |-> "raise", type |-> ex.exc, keys |-> {}, success |-> FALSE,
     error_type |-> ex.exc, error |-> ex.msg, valid_options |-> {}]

NoEarly ==
    [kind |-> "none", type |-> "", keys |-> {}, success |-> FALSE,
     error_type |-> "", error |-> <<>>, valid_options |-> {}]

NoRequest == [query |-> <<>>, variables |-> <<>>]
Request(query, variables) == [query |-> query, variables |-> variables]

\* The part of a tool before its first request: whether
\* get_salesforce_client() is called inside the tool's try, the value it
\* returns without sending anything (NoEarly when none), and the request.
Start(client_in_try, early, request) ==
    [client_in_try |-> client_in_try, early |-> early, request |-> request]

\* The part of a tool after an answer: the result, or the next request.
Done(res) == [next |-> "done", result |-> res, request |-> NoRequest]
Send(request) == [next |-> "send", result |-> NoEarly, request |-> request]

\* result.get("data", {}).get("uiapi", {}) ... : AttributeError on data: null.
Data(ex) ==
    IF ~ex.ok THEN ex
    ELSE IF ex.body.data = "null" THEN AttributeErrorNone ELSE ex

NumEdges(body) == IF body.data = "one" THEN 1 ELSE 0

----------------------------------------------------------------------------
(* The arguments of a tool call *)

\* An optional argument is <<>> when omitted (or None) and <<v>> when given;
\* a string is the sequence of its characters.
BlankArgs ==
    [id |-> <<>>, time_period |-> <<>>, stage |-> <<>>, min_amount |-> <<>>,
     limit |-> 0, industry |-> <<>>, exclude_stages |-> <<>>,
     object_name |-> <<>>, query |-> <<>>]

\* Values of the query argument of execute_custom_graphql.
CQ_valid ==
    <<"q", "u", "e", "r", "y", "{", "u", "i", "a", "p", "i", "{", "x", "}", "}">>
CQ_padded_upper ==
    <<" ", "{", "U", "I", "A", "P", "I", "{", "x", "}", "}", " ">>
CQ_no_uiapi ==
    <<"{", "x", "}">>
CQ_bad_start ==
    <<"u", "i", "a", "p", "i", "{", "x", "}">>
CQ_no_brace ==
    <<"q", "u", "e", "r", "y", " ", "u", "i", "a", "p", "i">>
CQ_mutation ==
    <<"m", "u", "t", "a", "t", "i", "o", "n", "{", "u", "i", "a", "p", "i", "{", "x", "}", "}">>
CQ_neither ==
    <<" ", "x">>
CustomQueries ==
    {CQ_valid, CQ_padded_upper, CQ_no_uiapi, CQ_bad_start, CQ_no_brace,
     CQ_mutation, CQ_neither}
S_uiapi == <<"u", "i", "a", "p", "i">>
S_query == <<"q", "u", "e", "r", "y">>
S_mutation == <<"m", "u", "t", "a", "t", "i", "o", "n">>

Contains(s, sub) ==
    \E i \in 1..(Len(s) - Len(sub) + 1) : SubSeq(s, i, i + Len(sub) - 1) = sub

StartsWith(s, prefix) ==
    Len(s) >= Len(prefix) /\ SubSeq(s, 1, Len(prefix)) = prefix

\* A dict returned before any request, carrying an error message.
ErrorDict(keys, success, msg) ==
    [Ret("dict", keys, success) EXCEPT !.error = msg]

----------------------------------------------------------------------------
(* The client methods, src/client.py *)

\* The try blocks of get_opportunity, search_opportunities and the other
\* methods: the edges of the answer, or the exception logged and re-raised.
ClientEdges(ex) == Data(ex)

----------------------------------------------------------------------------
(* The tools of src/tools/opportunities.py *)

get_opportunity_start(a) ==
    Start(FALSE, NoEarly,
          Request(GetOpportunityQuery, <<"opportunityId", a.id>>))

get_opportunity_resume(a, ex) ==
    LET e == ClientEdges(ex)
    IN  Done(IF ~e.ok THEN Raise(e)
             ELSE IF NumEdges(e.body) > 0 THEN Ret("Opportunity", {}, FALSE)
             ELSE Ret("NoneType", {}, FALSE))

\* client.search_opportunities(stage, min_amount, limit)
search_opportunities_start(a) ==
    Start(FALSE, NoEarly,
          Request(SearchOpportunitiesQuery(FmtInt(a.limit)), <<>>))

search_opportunities_resume(a, ex) ==
    LET e == ClientEdges(ex)
    IN  Done(IF ~e.ok THEN Raise(e) ELSE Ret("list", {}, FALSE))

get_recent_opportunities_start(a) ==
    Start(FALSE, NoEarly,
          Request(GetRecentOpportunitiesQuery(FmtInt(a.limit)), <<>>))

get_recent_opportunities_resume(a, ex) ==
    LET e == ClientEdges(ex)
    IN  Done(IF ~e.ok THEN Raise(e) ELSE Ret("list", {}, FALSE))

\* The default of the parameter time_period.
DefaultTimePeriod == TP_last_quarter

query_opportunities_start(a, n) ==
    LET time_period == IF a.time_period = <<>>
                       THEN DefaultTimePeriod ELSE a.time_period[1]
        date_range == DateRangeOf(ReplaceSpaces(Lower(time_period)))
        window == IF date_range = None
                  THEN [ok |-> FALSE, error |-> "ValueError: not a valid DateRange"]
                  ELSE get_date_range(date_range, n)
        invalid == time_period # <<>> /\ ~window.ok
        conditions ==
            (IF time_period # <<>> /\ window.ok
             THEN <<CloseDateCondition(window.start_date, window.end_date)>>
             ELSE <<>>)
            \o (IF a.stage # <<>> THEN <<StageCondition(a.stage)>> ELSE <<>>)
            \o (IF a.min_amount # <<>>
                THEN <<AmountCondition(a.min_amount[1])>> ELSE <<>>)
    IN  IF invalid
        THEN Start(FALSE,
                   [ErrorDict({"error", "valid_options"}, FALSE,
                              <<"Invalid time period: ">> \o time_period)
                        EXCEPT !.valid_options = ValidOptions],
                   NoRequest)
        ELSE Start(FALSE, NoEarly,
                   Request(GetOpportunitiesQuery(OppWhereClause(conditions),
                                                 FmtInt(a.limit)), <<>>))

query_opportunities_resume(a, ex) ==
    LET e == Data(ex)
    IN  Done(IF ~e.ok THEN FailurePayload(e, {})
             ELSE Ret("dict",
                      {"success", "summary", "opportunities", "timestamp"},
                      TRUE))

analyze_opportunity_trends_start(a) ==
    Start(FALSE, NoEarly,
          Request(GetRecentOpportunitiesQuery(FmtInt(a.limit)), <<>>))

analyze_opportunity_trends_resume(a, ex) ==
    LET e == ClientEdges(ex)
    IN  Done(IF ~e.ok THEN Raise(e)
             ELSE IF NumEdges(e.body) = 0 THEN Ret("dict", {"message"}, FALSE)
             ELSE Ret("dict",
                      {"total_opportunities", "deal_patterns",
                       "stage_distribution", "amount_analysis",
                       "probability_analysis"},
                      FALSE))

\* client.search_opportunities(stage=stage, limit=limit)
find_opportunities_by_stage_start(a) ==
    Start(FALSE, NoEarly,
          Request(SearchOpportunitiesQuery(FmtInt(a.limit)), <<>>))

find_opportunities_by_stage_resume(a, ex) ==
    LET e == ClientEdges(ex)
    IN  Done(IF ~e.ok THEN Raise(e)
             ELSE Ret("dict", {"stage", "opportunities_found", "opportunities"},
                      FALSE))

----------------------------------------------------------------------------
(* The tools of src/tools/accounts.py *)

get_account_start(a) ==
    Start(FALSE, NoEarly, Request(GetAccountQuery, <<"accountId", a.id>>))

get_account_resume(a, ex) ==
    LET e == ClientEdges(ex)
    IN  Done(IF ~e.ok THEN Raise(e)
             ELSE IF NumEdges(e.body) > 0 THEN Ret("Account", {}, FALSE)
             ELSE Ret("NoneType", {}, FALSE))

\* client.search_accounts(industry, limit)
search_accounts_start(a) ==
    Start(FALSE, NoEarly, Request(SearchAccountsQuery(FmtInt(a.limit)), <<>>))

search_accounts_resume(a, ex) ==
    LET e == ClientEdges(ex)
    IN  Done(IF ~e.ok THEN Raise(e) ELSE Ret("list", {}, FALSE))

get_recent_accounts_start(a) ==
    Start(FALSE, NoEarly,
          Request(GetRecentAccountsQuery(FmtInt(a.limit)), <<>>))

get_recent_accounts_resume(a, ex) ==
    LET e == ClientEdges(ex)
    IN  Done(IF ~e.ok THEN Raise(e) ELSE Ret("list", {}, FALSE))

query_accounts_start(a) ==
    Start(FALSE, NoEarly,
          Request(GetAccountsQuery(AccWhereClause(a.industry), FmtInt(a.limit)),
                  <<>>))

query_accounts_resume(a, ex) ==
    LET e == Data(ex)
    IN  Done(IF ~e.ok THEN FailurePayload(e, {})
             ELSE Ret("dict", {"success", "summary", "accounts", "timestamp"},
                      TRUE))

get_account_statistics_start(a) ==
    Start(FALSE, NoEarly,
          Request(GetRecentAccountsQuery(FmtInt(a.limit)), <<>>))

get_account_statistics_resume(a, ex) ==
    LET e == ClientEdges(ex)
    IN  Done(IF ~e.ok THEN Raise(e)
             ELSE IF NumEdges(e.body) = 0 THEN Ret("dict", {"message"}, FALSE)
             ELSE Ret("dict",
                      {"total_accounts", "industry_distribution",
                       "revenue_analysis", "employee_analysis"},
                      FALSE))

\* client.search_accounts(industry=industry, limit=limit)
find_accounts_by_industry_start(a) ==
    Start(FALSE, NoEarly, Request(SearchAccountsQuery(FmtInt(a.limit)), <<>>))

find_accounts_by_industry_resume(a, ex) ==
    LET e == ClientEdges(ex)
    IN  Done(IF ~e.ok THEN Raise(e)
             ELSE Ret("dict", {"industry", "accounts_found", "accounts"}, FALSE))

analyze_account_trends_start(a) ==
    Start(FALSE, NoEarly,
          Request(GetRecentAccountsQuery(FmtInt(a.limit)), <<>>))

analyze_account_trends_resume(a, ex) ==
    LET e == ClientEdges(ex)
    IN  Done(IF ~e.ok THEN Raise(e)
             ELSE IF NumEdges(e.body) = 0 THEN Ret("dict", {"message"}, FALSE)
             ELSE Ret("dict",
                      {"total_accounts", "industry_patterns",
                       "revenue_distribution", "size_analysis",
                       "geographic_distribution"},
                      FALSE))

----------------------------------------------------------------------------
(* The tools of src/tools/schema.py *)

\* The two checks in the other order.
execute_custom_graphql_format_first(a) ==
    LET clean_query == Strip(a.query)
    IN  IF ~((\E p \in {S_query, S_mutation, <<"{">>} :
                  StartsWith(Strip(clean_query), p))
             /\ "{" \in Range(clean_query))
        THEN Start(FALSE,
                   ErrorDict({"success", "error", "hint", "received_query"},
                             FALSE, <<"Invalid GraphQL query format">>),
                   NoRequest)
        ELSE IF ~Contains(Lower(clean_query), S_uiapi)
        THEN Start(FALSE,
                   ErrorDict({"success", "error", "hint", "received_query"},
                             FALSE, <<"Query must include 'uiapi' field">>),
                   NoRequest)
        ELSE Start(FALSE, NoEarly, Request(clean_query, <<>>))

execute_custom_graphql_start(a) ==
    LET clean_query == Strip(a.query)
    IN  IF ~Contains(Lower(clean_query), S_uiapi)
        THEN Start(FALSE,
                   ErrorDict({"success", "error", "hint", "received_query"},
                             FALSE, <<"Query must include 'uiapi' field">>),
                   NoRequest)
        ELSE IF ~((\E p \in {S_query, S_mutation, <<"{">>} :
                       StartsWith(Strip(clean_query), p))
                  /\ "{" \in Range(clean_query))
        THEN Start(FALSE,
                   ErrorDict({"success", "error", "hint", "received_query"},
                             FALSE, <<"Invalid GraphQL query format">>),
                   NoRequest)
        ELSE Start(FALSE, NoEarly, Request(clean_query, <<>>))

execute_custom_graphql_resume(a, ex) ==
    Done(IF ~ex.ok THEN FailurePayload(ex, {"query_preview"})
         ELSE Ret("dict", {"success", "data", "timestamp"}, TRUE))

get_salesforce_schema_info_start(a) ==
    Start(FALSE, NoEarly, Request(GetObjectInfoQuery, <<>>))

get_salesforce_schema_info_resume(a, ex) ==
    LET e == Data(ex)
    IN  Done(IF ~e.ok THEN FailurePayload(e, {})
             ELSE Ret("dict",
                      {"success", "salesforce_info", "common_objects",
                       "available_tools", "date_range_options",
                       "example_queries", "timestamp"},
                      TRUE))

get_object_fields_start(a) ==
    Start(FALSE, NoEarly, Request(GetObjectFieldsQuery(a.object_name), <<>>))

\* objectInfo is null in the body that holds no record.
get_object_fields_resume(a, ex) ==
    LET e == Data(ex)
    IN  Done(IF ~e.ok THEN FailurePayload(e, {})
             ELSE IF NumEdges(e.body) = 0
             THEN ErrorDict({"success", "error", "available_objects"}, FALSE,
                            <<"Object '">> \o a.object_name
                            \o <<"' not found or not accessible">>)
             ELSE Ret("dict",
                      {"success", "object_info", "note", "example_field_query",
                       "timestamp"},
                      TRUE))

----------------------------------------------------------------------------
(* The tools of src/tools/business_analysis_tools.py *)

high_value_pipeline_analysis_start(a) ==
    Start(TRUE, NoEarly,
          Request(HighValuePipelineQuery(FmtFloat(a.min_amount[1]),
                                         FmtInt(a.limit)), <<>>))

high_value_pipeline_analysis_resume(a, ex) ==
    LET e == Data(ex)
    IN  Done(IF ~e.ok THEN FailurePayload(e, {})
             ELSE Ret("dict",
                      {"success", "filter_applied", "pipeline_summary",
                       "breakdowns", "opportunities", "timestamp"},
                      TRUE))

sales_stage_analysis_start(a) ==
    Start(TRUE, NoEarly,
          Request(SalesStageAnalysisQuery(StageWhereClause(a.exclude_stages),
                                          FmtInt(a.limit)), <<>>))

sales_stage_analysis_resume(a, ex) ==
    LET e == Data(ex)
    IN  Done(IF ~e.ok THEN FailurePayload(e, {})
             ELSE Ret("dict",
                      {"success", "filter_applied", "summary", "stage_analysis",
                       "timestamp"},
                      TRUE))

complete_pipeline_report_start(a) ==
    Start(TRUE, NoEarly,
          Request(CompletePipelineReportQuery(FmtFloat(a.min_amount[1])), <<>>))

complete_pipeline_report_resume(a, ex) ==
    LET e == Data(ex)
    IN  Done(IF ~e.ok THEN FailurePayload(e, {})
             ELSE Ret("dict",
                      {"success", "report_period", "filters",
                       "executive_summary", "detailed_analysis",
                       "top_opportunities", "timestamp"},
                      TRUE))

account_opportunity_analysis_start(a) ==
    Start(TRUE, NoEarly, Request(AccountAnalysisQuery, <<>>))

\* On a failed first request the tool asks once more, with the same document.
account_opportunity_analysis_retrying(a, k, ex) ==
    LET e == Data(ex)
    IN  IF ~e.ok
        THEN (IF k = 1 THEN Send(Request(AccountAnalysisQuery, <<>>))
              ELSE Done(FailurePayload(e, {})))
        ELSE IF k = 1 THEN Send(Request(OpportunityAnalysisQuery, <<>>))
        ELSE Done(Ret("dict",
                      {"success", "summary", "account_opportunity_breakdown",
                       "top_accounts_by_pipeline", "timestamp"},
                      TRUE))

\* After the opportunity request the tool asks for one more page.
account_opportunity_analysis_paging(a, k, ex) ==
    LET e == Data(ex)
    IN  IF ~e.ok THEN Done(FailurePayload(e, {}))
        ELSE IF k < 3 THEN Send(Request(OpportunityAnalysisQuery, <<>>))
        ELSE Done(Ret("dict",
                      {"success", "summary", "account_opportunity_breakdown",
                       "top_accounts_by_pipeline", "timestamp"},
                      TRUE))

\* A failed opportunity request still gives the report built so far.
account_opportunity_analysis_partial(a, k, ex) ==
    LET e == Data(ex)
    IN  IF ~e.ok /\ k = 1 THEN Done(FailurePayload(e, {}))
        ELSE IF k = 1 THEN Send(Request(OpportunityAnalysisQuery, <<>>))
        ELSE Done(Ret("dict",
                      {"success", "summary", "account_opportunity_breakdown",
                       "top_accounts_by_pipeline", "timestamp"},
                      TRUE))

\* k is the number of requests sent so far: the account request, then the
\* opportunity request.
account_opportunity_analysis_resume(a, k, ex) ==
    LET e == Data(ex)
    IN  IF ~e.ok THEN Done(FailurePayload(e, {}))
        ELSE IF k = 1 THEN Send(Request(OpportunityAnalysisQuery, <<>>))
        ELSE Done(Ret("dict",
                      {"success", "summary", "account_opportunity_breakdown",
                       "top_accounts_by_pipeline", "timestamp"},
                      TRUE))

----------------------------------------------------------------------------
(* The registered tools *)

OpportunityTools ==
    {"get_opportunity", "search_opportunities", "get_recent_opportunities",
     "query_opportunities", "analyze_opportunity_trends",
     "find_opportunities_by_stage"}

AccountTools ==
    {"get_account", "search_accounts", "get_recent_accounts", "query_accounts",
     "get_account_statistics", "find_accounts_by_industry",
     "analyze_account_trends"}

SchemaTools ==
    {"execute_custom_graphql", "get_salesforce_schema_info",
     "get_object_fields"}

BusinessAnalysisTools ==
    {"high_value_pipeline_analysis", "sales_stage_analysis",
     "complete_pipeline_report", "account_opportunity_analysis"}

\* register_tools, src/main.py
Tools == OpportunityTools \cup AccountTools \cup SchemaTools
         \cup BusinessAnalysisTools

ToolStart(t, a, n) ==
    CASE t = "query_opportunities" -> query_opportunities_start(a, n)
      [] t = "get_opportunity" -> get_opportunity_start(a)
      [] t = "search_opportunities" -> search_opportunities_start(a)
      [] t = "get_recent_opportunities" -> get_recent_opportunities_start(a)
      [] t = "analyze_opportunity_trends" -> analyze_opportunity_trends_start(a)
      [] t = "find_opportunities_by_stage" -> find_opportunities_by_stage_start(a)
      [] t = "get_account" -> get_account_start(a)
      [] t = "search_accounts" -> search_accounts_start(a)
      [] t = "get_recent_accounts" -> get_recent_accounts_start(a)
      [] t = "query_accounts" -> query_accounts_start(a)
      [] t = "get_account_statistics" -> get_account_statistics_start(a)
      [] t = "find_accounts_by_industry" -> find_accounts_by_industry_start(a)
      [] t = "analyze_account_trends" -> analyze_account_trends_start(a)
      [] t = "execute_custom_graphql" -> execute_custom_graphql_start(a)
      [] t = "get_salesforce_schema_info" -> get_salesforce_schema_info_start(a)
      [] t = "get_object_fields" -> get_object_fields_start(a)
      [] t = "high_value_pipeline_analysis" -> high_value_pipeline_analysis_start(a)
      [] t = "sales_stage_analysis" -> sales_stage_analysis_start(a)
      [] t = "complete_pipeline_report" -> complete_pipeline_report_start(a)
      [] t = "account_opportunity_analysis" -> account_opportunity_analysis_start(a)

ToolResume(t, a, k, ex) ==
    CASE t = "query_opportunities" -> query_opportunities_resume(a, ex)
      [] t = "get_opportunity" -> get_opportunity_resume(a, ex)
      [] t = "search_opportunities" -> search_opportunities_resume(a, ex)
      [] t = "get_recent_opportunities" -> get_recent_opportunities_resume(a, ex)
      [] t = "analyze_opportunity_trends" -> analyze_opportunity_trends_resume(a, ex)
      [] t = "find_opportunities_by_stage" -> find_opportunities_by_stage_resume(a, ex)
      [] t = "get_account" -> get_account_resume(a, ex)
      [] t = "search_accounts" -> search_accounts_resume(a, ex)
      [] t = "get_recent_accounts" -> get_recent_accounts_resume(a, ex)
      [] t = "query_accounts" -> query_accounts_resume(a, ex)
      [] t = "get_account_statistics" -> get_account_statistics_resume(a, ex)
      [] t = "find_accounts_by_industry" -> find_accounts_by_industry_resume(a, ex)
      [] t = "analyze_account_trends" -> analyze_account_trends_resume(a, ex)
      [] t = "execute_custom_graphql" -> execute_custom_graphql_resume(a, ex)
      [] t = "get_salesforce_schema_info" -> get_salesforce_schema_info_resume(a, ex)
      [] t = "get_object_fields" -> get_object_fields_resume(a, ex)
      [] t = "high_value_pipeline_analysis" -> high_value_pipeline_analysis_resume(a, ex)
      [] t = "sales_stage_analysis" -> sales_stage_analysis_resume(a, ex)
      [] t = "complete_pipeline_report" -> complete_pipeline_report_resume(a, ex)
      [] t = "account_opportunity_analysis" ->
            account_opportunity_analysis_resume(a, k, ex)

----------------------------------------------------------------------------
(* Inputs *)

Limits == {-1, 0, 1, 50, 100, 101}

MinAmounts == {<<>>, <<0>>, <<50000>>}

TimePeriods ==
    {<<>>, <<<<>>>>, <<TP_last_quarter>>, <<TP_this_month>>,
     <<TP_Last_Quarter>>, <<TP_THIS_YEAR>>, <<TP_next_week>>,
     <<TP_this_year_padded>>}

\* exclude_stages: None, the empty list, one stage, or "a" and one more.
ExcludeStages ==
    {<<>>, << <<>> >>}
    \cup {<< <<s>> >> : s \in Strs}
    \cup {<< <<(<<"a">>), s>> >> : s \in Strs}

\* Every argument drawn from its whole input set.
WideArgs(t) ==
    CASE t \in {"get_opportunity", "get_account"} ->
            {[BlankArgs EXCEPT !.id = s] : s \in Strs \ {<<>>}}
      [] t = "search_opportunities" ->
            {[BlankArgs EXCEPT !.stage = s, !.min_amount = m, !.limit = l] :
                s \in Strs, m \in MinAmounts, l \in Limits}
      [] t = "query_opportunities" ->
            {[BlankArgs EXCEPT !.time_period = p, !.stage = s,
                               !.min_amount = m, !.limit = l] :
                p \in TimePeriods, s \in Strs, m \in MinAmounts, l \in Limits}
      [] t = "find_opportunities_by_stage" ->
            {[BlankArgs EXCEPT !.stage = s, !.limit = l] :
                s \in Strs, l \in Limits}
      [] t \in {"search_accounts", "query_accounts",
                "find_accounts_by_industry"} ->
            {[BlankArgs EXCEPT !.industry = s, !.limit = l] :
                s \in Strs, l \in Limits}
      [] t \in {"get_recent_opportunities", "analyze_opportunity_trends",
                "get_recent_accounts", "get_account_statistics",
                "analyze_account_trends"} ->
            {[BlankArgs EXCEPT !.limit = l] : l \in Limits}
      [] t = "execute_custom_graphql" ->
            {[BlankArgs EXCEPT !.query = q] : q \in CustomQueries}
      [] t = "get_object_fields" ->
            {[BlankArgs EXCEPT !.object_name = s] : s \in Strs}
      [] t = "high_value_pipeline_analysis" ->
            {[BlankArgs EXCEPT !.min_amount = m, !.limit = l] :
                m \in MinAmounts \ {<<>>}, l \in Limits}
      [] t = "sales_stage_analysis" ->
            {[BlankArgs EXCEPT !.exclude_stages = x, !.limit = l] :
                x \in ExcludeStages, l \in Limits}
      [] t = "complete_pipeline_report" ->
            {[BlankArgs EXCEPT !.min_amount = m] : m \in MinAmounts \ {<<>>}}
      [] OTHER -> {BlankArgs}

\* The calls whose strings hold no double quote and whose limit is 50: the
\* inputs of the runs that follow a call through its answers.
PlainArgs(t) ==
    {a \in WideArgs(t) :
        /\ a.limit \in {0, 50}
        /\ \A s \in {a.id, a.stage, a.industry, a.object_name} :
               s \in {<<>>, <<"a">>}
        /\ a.min_amount \in {<<>>, <<50000>>}
        /\ a.time_period \in {<<>>, <<<<>>>>, <<TP_this_month>>, <<TP_next_week>>}
        /\ a.exclude_stages \in {<<>>, << <<<<"a">>>> >>}}

SampleDates == {[y |-> 2024, m |-> 2, d |-> 29], [y |-> 2025, m |-> 1, d |-> 15]}

----------------------------------------------------------------------------
(* The server: startup, tool calls, answers *)

NoResponse == [kind |-> "none", status |-> 0, body |-> NoBody]
NoExec == Fail("none", <<>>)

toolvars == <<server, env, salesforce_client, pc, tool, args, doc, sent, resp,
              exec, result>>
datevars == <<range_type, date_result>>
aggvars == <<records, report>>
concvars == <<invocations, constructed>>

NoReport == [kind |-> "none"]

InitTool ==
    /\ server = "starting"
    /\ salesforce_client = NoClient
    /\ pc = "idle" /\ tool = None /\ args = BlankArgs
    /\ doc = NoRequest /\ sent = <<>>
    /\ resp = NoResponse /\ exec = NoExec /\ result = NoEarly

\* No concurrent call is modelled.
InitSequential == invocations = <<>> /\ constructed = 0

Init ==
    /\ InitTool
    /\ InitSequential
    /\ env \in Envs
    /\ now \in SampleDates
    /\ range_type = NotADateRange
    /\ date_result = NoResult
    /\ records = <<>> /\ report = NoReport

\* main() without its two checks: the server starts whatever the
\* configuration holds.
MainWithoutCheck ==
    /\ server = "starting"
    /\ server' = "serving"
    /\ UNCHANGED <<env, salesforce_client, pc, tool, args, doc, sent, resp,
                   exec, result, now>>
    /\ UNCHANGED datevars
    /\ UNCHANGED aggvars
    /\ UNCHANGED concvars

\* main(): a missing configuration value ends the process before any tool
\* is registered.
Main ==
    /\ server = "starting"
    /\ server' = IF env.url = "" \/ env.token = "" THEN "failed" ELSE "serving"
    /\ UNCHANGED <<env, salesforce_client, pc, tool, args, doc, sent, resp,
                   exec, result, now>>
    /\ UNCHANGED datevars
    /\ UNCHANGED aggvars
    /\ UNCHANGED concvars

\* A call of tool t with arguments a, up to its first await: the handle,
\* the checks of the arguments, the document, the request posted.
Invoke(t, a) ==
    /\ server = "serving"
    /\ pc = "idle"
    /\ tool' = t
    /\ args' = a
    /\ resp' = NoResponse
    /\ exec' = NoExec
    /\ LET s == ToolStart(t, a, now)
           c == get_salesforce_client(salesforce_client, env)
       IN  IF ~c.ok
           THEN /\ salesforce_client' = salesforce_client
                /\ pc' = "done"
                /\ result' = IF s.client_in_try
                             THEN FailurePayload(c, {}) ELSE Raise(c)
                /\ doc' = NoRequest
                /\ sent' = <<>>
           ELSE /\ salesforce_client' = c.client
                /\ IF s.early # NoEarly
                   THEN /\ pc' = "done"
                        /\ result' = s.early
                        /\ doc' = NoRequest
                        /\ sent' = <<>>
                   ELSE /\ pc' = "inflight"
                        /\ result' = NoEarly
                        /\ doc' = s.request
                        /\ sent' = <<s.request>>
    /\ UNCHANGED <<server, env, now>>
    /\ UNCHANGED datevars
    /\ UNCHANGED aggvars
    /\ UNCHANGED concvars

Call == \E t \in Tools : \E a \in PlainArgs(t) : Invoke(t, a)

CallWide == \E t \in Tools : \E a \in WideArgs(t) : Invoke(t, a)

\* The answer r to the request in flight: execute_query returns or raises,
\* and the tool runs on to its result or to its next request.
Respond(r) ==
    /\ pc = "inflight"
    /\ resp' = r
    /\ exec' = execute_query(r)
    /\ LET nx == ToolResume(tool, args, Len(sent), execute_query(r))
       IN  IF nx.next = "send"
           THEN /\ pc' = "inflight"
                /\ doc' = nx.request
                /\ sent' = Append(sent, nx.request)
                /\ result' = NoEarly
           ELSE /\ pc' = "done"
                /\ doc' = NoRequest
                /\ sent' = sent
                /\ result' = nx.result
    /\ UNCHANGED <<server, env, salesforce_client, tool, args, now>>
    /\ UNCHANGED datevars
    /\ UNCHANGED aggvars
    /\ UNCHANGED concvars

Answer == \E r \in Responses : Respond(r)

\* The caller has the result; the server waits for the next call.
Return ==
    /\ pc = "done"
    /\ pc' = "idle" /\ tool' = None /\ args' = BlankArgs
    /\ doc' = NoRequest /\ sent' = <<>>
    /\ resp' = NoResponse /\ exec' = NoExec /\ result' = NoEarly
    /\ UNCHANGED <<server, env, salesforce_client, now>>
    /\ UNCHANGED datevars
    /\ UNCHANGED aggvars
    /\ UNCHANGED concvars

Next == Main \/ Call \/ Answer \/ Return

Spec == Init /\ [][Next]_vars

\* The documents of every call, for every value of every argument.
NextQuery == Main \/ CallWide

SpecQuery == Init /\ [][NextQuery]_vars

----------------------------------------------------------------------------
(* The date-range resolver on its own: every reference date, every period *)

InitDate ==
    /\ InitTool
    /\ InitSequential
    /\ env = [url |-> "", token |-> ""]
    /\ now \in RefDates
    /\ range_type \in DateRange \cup {NotADateRange}
    /\ date_result = NoResult
    /\ records = <<>> /\ report = NoReport

CallGetDateRange ==
    /\ date_result = NoResult
    /\ date_result' = get_date_range(range_type, now)
    /\ UNCHANGED toolvars
    /\ UNCHANGED <<now, range_type>>
    /\ UNCHANGED aggvars
    /\ UNCHANGED concvars

NextDate == CallGetDateRange

SpecDate == InitDate /\ [][NextDate]_vars

----------------------------------------------------------------------------
(* The records of an answer, and how the tools read them *)

\* A field of a node as the tools find it: the key is absent, it holds
\* null, it holds the wrapper {"value": v} (v is <<>> for null and <<x>>
\* for x), it holds a wrapper without a value key, or it holds a plain scalar.
Absent == [w |-> "absent", v |-> <<>>]
Null == [w |-> "null", v |-> <<>>]
NoValue == [w |-> "no_value", v |-> <<>>]
Obj(x) == [w |-> "obj", v |-> <<x>>]
ObjNull == [w |-> "obj", v |-> <<>>]
Scalar(x) == [w |-> "scalar", v |-> <<x>>]

\* A relation of a node (Account, Owner): absent, null, or an object with
\* an Id (<<>> when it has none) and the fields Name and Industry.
NoRel == [w |-> "absent", Id |-> <<>>, Name |-> Absent, Industry |-> Absent]
NullRel == [w |-> "null", Id |-> <<>>, Name |-> Absent, Industry |-> Absent]
Rel(id, name, industry) ==
    [w |-> "obj", Id |-> <<id>>, Name |-> name, Industry |-> industry]

\* The value of an expression: a Python value (<<>> is None), or the
\* AttributeError raised by .get on None or on a scalar.
Val(v) == [ok |-> TRUE, v |-> v]
Err == [ok |-> FALSE, v |-> <<>>]

\* node.get(F, {}).get("value", default)
Get(field, default) ==
    IF field.w \in {"null", "scalar"} THEN Err
    ELSE IF field.w \in {"absent", "no_value"} THEN Val(<<default>>)
    ELSE Val(field.v)

\* node.get(R, {}).get("Id")
GetId(rel) ==
    IF rel.w = "null" THEN Err ELSE Val(rel.Id)

\* node.get(R, {}).get("Name", {}).get("value", default)
GetName(rel, default) ==
    IF rel.w = "null" THEN Err ELSE Get(rel.Name, default)

\* node.get(R, {}).get("Industry", {}).get("value", default)
GetIndustry(rel, default) ==
    IF rel.w = "null" THEN Err ELSE Get(rel.Industry, default)

\* x or 0, for a number or None
OrZero(r) ==
    IF r.ok /\ (r.v = <<>> \/ r.v = <<0>>) THEN Val(<<0>>) ELSE r

\* The dict built for one node by query_opportunities,
\* src/tools/opportunities.py lines 166-186; ok is FALSE when building it
\* raises.
OpportunityDict(node) ==
    [ok |-> /\ OrZero(Get(node.Amount, 0)).ok
            /\ Get(node.Name, "").ok
            /\ Get(node.StageName, "").ok
            /\ Get(node.Probability, 0).ok
            /\ GetId(node.Account).ok /\ GetName(node.Account, "").ok
            /\ GetId(node.Owner).ok /\ GetName(node.Owner, "").ok,
     id |-> node.Id,
     name |-> Get(node.Name, "").v,
     amount |-> OrZero(Get(node.Amount, 0)).v,
     stage |-> Get(node.StageName, "").v,
     probability |-> Get(node.Probability, 0).v,
     account_id |-> GetId(node.Account).v,
     account_name |-> GetName(node.Account, "").v,
     owner_id |-> GetId(node.Owner).v,
     owner_name |-> GetName(node.Owner, "").v]

\* The dict built for one node by high_value_pipeline_analysis,
\* src/tools/business_analysis_tools.py lines 79-99. The weighted value is
\* counted in hundredths: amount * probability.
\* The weighted value when the probability is taken as a fraction of 1.
WeightedValueOfFraction(amount, probability) == amount * probability * 100
WeightedValue(amount, probability) == amount * probability

HighValueDict(node) ==
    [ok |-> /\ OrZero(Get(node.Amount, 0)).ok
            /\ OrZero(Get(node.Probability, 0)).ok
            /\ Get(node.StageName, "Unknown").ok
            /\ GetName(node.Owner, "Unknown").ok
            /\ GetIndustry(node.Account, "Unknown").ok
            /\ Get(node.Name, "").ok
            /\ GetName(node.Account, "").ok,
     id |-> node.Id,
     name |-> Get(node.Name, "").v,
     amount |-> OrZero(Get(node.Amount, 0)).v,
     stage |-> Get(node.StageName, "Unknown").v,
     probability |-> OrZero(Get(node.Probability, 0)).v,
     account_name |-> GetName(node.Account, "").v,
     industry |-> GetIndustry(node.Account, "Unknown").v,
     owner |-> GetName(node.Owner, "Unknown").v,
     weighted_value |->
         IF OrZero(Get(node.Amount, 0)).ok /\ OrZero(Get(node.Probability, 0)).ok
         THEN WeightedValue(OrZero(Get(node.Amount, 0)).v[1],
                            OrZero(Get(node.Probability, 0)).v[1])
         ELSE 0]

----------------------------------------------------------------------------
(* The reports of the tools that aggregate opportunities *)

\* sum(xs) of a sequence of numbers
RECURSIVE SumSeq(_)
SumSeq(xs) == IF xs = <<>> THEN 0 ELSE Head(xs) + SumSeq(Tail(xs))

\* a / b, kept exact as a fraction; and the 0 of "... if xs else 0"
Ratio(num, den) == [num |-> num, den |-> den]
Zero == Ratio(0, 1)
RatioOrZero(num, den) == IF den = 0 THEN Zero ELSE Ratio(num, den)

\* The except branch of a tool: success False with the type of the exception.
FailureReport(error_type) ==
    [kind |-> "return", success |-> FALSE, error_type |-> error_type]

AllOk(dicts) == \A i \in 1..Len(dicts) : dicts[i].ok

\* The keys of a dict filled in the order of the sequence ks: each key once,
\* at its first occurrence.
NoKey == <<"<no key>">>
IsKey(k) == k # NoKey
FirstSeen(ks) ==
    SelectSeq([i \in 1..Len(ks) |->
                  IF \E j \in 1..(i - 1) : ks[j] = ks[i] THEN NoKey ELSE ks[i]],
              IsKey)

\* The entries of a breakdown: for each key, in the order the keys are first
\* seen, the count, the value and the weighted value of its records.
Masked(xs, ks, k) == [i \in 1..Len(xs) |-> IF ks[i] = k THEN xs[i] ELSE 0]
\* An entry whose value is assigned at each record instead of added to: it
\* holds the amount of the last record of the key.
LastOf(ks, k) == CHOOSE i \in 1..Len(ks) : ks[i] = k /\ \A j \in (i + 1)..Len(ks) : ks[j] # k
EntryOverwritten(k, ks, amounts, weighted) ==
    [key |-> k,
     count |-> Cardinality({i \in 1..Len(ks) : ks[i] = k}),
     value |-> amounts[LastOf(ks, k)],
     weighted_value |-> weighted[LastOf(ks, k)]]
Entry(k, ks, amounts, weighted) ==
    [key |-> k,
     count |-> Cardinality({i \in 1..Len(ks) : ks[i] = k}),
     value |-> SumSeq(Masked(amounts, ks, k)),
     weighted_value |-> SumSeq(Masked(weighted, ks, k))]
Entries(keys, ks, amounts, weighted) ==
    [n \in 1..Len(keys) |-> Entry(keys[n], ks, amounts, weighted)]
Breakdown(ks, amounts, weighted) ==
    Entries(FirstSeen(ks), ks, amounts, weighted)

\* The entries in the order a dict is filled, unsorted.
Unsorted(entries) == entries

\* sorted(entries, key=value, reverse=True): the sort is stable, entries of
\* equal value keep their order.
RankDesc(entries, i) ==
    1 + Cardinality({j \in 1..Len(entries) :
                        \/ entries[j].value > entries[i].value
                        \/ entries[j].value = entries[i].value /\ j < i})
SortedDesc(entries) ==
    [p \in 1..Len(entries) |->
        entries[CHOOSE i \in 1..Len(entries) : RankDesc(entries, i) = p]]

Amounts(dicts) == [i \in 1..Len(dicts) |-> dicts[i].amount[1]]
Probabilities(dicts) == [i \in 1..Len(dicts) |-> dicts[i].probability[1]]
Weighted(dicts) == [i \in 1..Len(dicts) |-> dicts[i].weighted_value]
Stages(dicts) == [i \in 1..Len(dicts) |-> dicts[i].stage]
Owners(dicts) == [i \in 1..Len(dicts) |-> dicts[i].owner]
Industries(dicts) == [i \in 1..Len(dicts) |-> dicts[i].industry]

\* query_opportunities from the edges on, src/tools/opportunities.py lines
\* 160-214.
QueryOpportunitiesDicts(edges) ==
    [i \in 1..Len(edges) |-> OpportunityDict(edges[i])]
QueryOpportunitiesSummary(opportunities) ==
    IF ~AllOk(opportunities) THEN FailureReport("AttributeError")
    ELSE [kind |-> "return", success |-> TRUE,
          total_opportunities |-> Len(opportunities),
          total_value |-> SumSeq(Amounts(opportunities)),
          average_deal_size |->
              RatioOrZero(SumSeq(Amounts(opportunities)), Len(opportunities)),
          opportunities |-> opportunities]
QueryOpportunitiesReport(edges) ==
    QueryOpportunitiesSummary(QueryOpportunitiesDicts(edges))

\* high_value_pipeline_analysis from the edges on,
\* src/tools/business_analysis_tools.py lines 67-150.
HighValueDicts(edges) == [i \in 1..Len(edges) |-> HighValueDict(edges[i])]
HighValueSummary(opportunities) ==
    IF ~AllOk(opportunities) THEN FailureReport("AttributeError")
    ELSE [kind |-> "return", success |-> TRUE,
          total_opportunities |-> Len(opportunities),
          total_pipeline_value |-> SumSeq(Amounts(opportunities)),
          weighted_pipeline_value |-> SumSeq(Weighted(opportunities)),
          average_deal_size |->
              RatioOrZero(SumSeq(Amounts(opportunities)), Len(opportunities)),
          average_probability |->
              RatioOrZero(SumSeq(Probabilities(opportunities)),
                          Len(opportunities)),
          by_stage |-> Unsorted(Breakdown(Stages(opportunities),
                                          Amounts(opportunities),
                                          Weighted(opportunities))),
          by_owner |-> Unsorted(Breakdown(Owners(opportunities),
                                          Amounts(opportunities),
                                          Weighted(opportunities))),
          by_industry |-> Unsorted(Breakdown(Industries(opportunities),
                                             Amounts(opportunities),
                                             Weighted(opportunities))),
          opportunities |-> opportunities]
HighValueReport(edges) == HighValueSummary(HighValueDicts(edges))

\* What sales_stage_analysis reads of one node,
\* src/tools/business_analysis_tools.py lines 222-247.
SalesStageDict(node) ==
    [ok |-> /\ Get(node.StageName, "Unknown").ok
            /\ OrZero(Get(node.Amount, 0)).ok
            /\ OrZero(Get(node.Probability, 0)).ok
            /\ Get(node.Name, "").ok
            /\ GetName(node.Account, "").ok,
     name |-> Get(node.Name, "").v,
     stage |-> Get(node.StageName, "Unknown").v,
     amount |-> OrZero(Get(node.Amount, 0)).v,
     probability |-> OrZero(Get(node.Probability, 0)).v,
     account |-> GetName(node.Account, "").v,
     weighted_value |->
         IF OrZero(Get(node.Amount, 0)).ok /\ OrZero(Get(node.Probability, 0)).ok
         THEN WeightedValue(OrZero(Get(node.Amount, 0)).v[1],
                            OrZero(Get(node.Probability, 0)).v[1])
         ELSE 0]

\* sales_stage_analysis from the edges on,
\* src/tools/business_analysis_tools.py lines 214-290.
SalesStageDicts(edges) == [i \in 1..Len(edges) |-> SalesStageDict(edges[i])]

\* The dict appended to the deals of a stage; amount_display, copied from
\* the answer unchanged, is left out.
Deal(d) ==
    [name |-> d.name, amount |-> d.amount[1],
     probability |-> d.probability[1], account |-> d.account]
DealsOf(deals, k) ==
    [i \in 1..Len(SelectSeq(deals, LAMBDA d : d.stage = k)) |->
        Deal(SelectSeq(deals, LAMBDA d : d.stage = k)[i])]

\* deals.sort(key=amount, reverse=True): stable, equal amounts keep their
\* order.
RankByAmount(ds, i) ==
    1 + Cardinality({j \in 1..Len(ds) :
                        \/ ds[j].amount > ds[i].amount
                        \/ ds[j].amount = ds[i].amount /\ j < i})
SortedByAmount(ds) ==
    [p \in 1..Len(ds) |-> ds[CHOOSE i \in 1..Len(ds) : RankByAmount(ds, i) = p]]

\* deals[:5]
TopDealsKept == 5
FirstDeals(ds) ==
    SubSeq(ds, 1, IF Len(ds) < TopDealsKept THEN Len(ds) ELSE TopDealsKept)
\* The first five deals in the order of the answer, not sorted.
TopDealsUnsorted(ds) == FirstDeals(ds)
TopDeals(ds) == FirstDeals(SortedByAmount(ds))

DealProbabilities(ds) == [i \in 1..Len(ds) |-> ds[i].probability]

\* The metrics of one stage after the loop that calculates the averages:
\* e holds its count, total_value (value) and weighted_value, ds its deals.
StageMetrics(e, ds) ==
    [key |-> e.key,
     count |-> e.count,
     value |-> e.value,
     weighted_value |-> e.weighted_value,
     avg_deal_size |-> Ratio(e.value, e.count),
     avg_probability |-> Ratio(SumSeq(DealProbabilities(ds)), Len(ds)),
     top_deals |-> TopDeals(ds)]
StageMetricsOf(entries, deals) ==
    [n \in 1..Len(entries) |->
        StageMetrics(entries[n], DealsOf(deals, entries[n].key))]
SalesStageSummary(deals) ==
    IF ~AllOk(deals) THEN FailureReport("AttributeError")
    ELSE [kind |-> "return", success |-> TRUE,
          total_opportunities |-> Len(deals),
          total_pipeline_value |-> SumSeq(Amounts(deals)),
          unique_stages |-> Len(FirstSeen(Stages(deals))),
          avg_deal_size |-> RatioOrZero(SumSeq(Amounts(deals)), Len(deals)),
          stage_analysis |->
              SortedDesc(StageMetricsOf(Breakdown(Stages(deals), Amounts(deals),
                                                  Weighted(deals)),
                                        deals))]
SalesStageReport(edges) == SalesStageSummary(SalesStageDicts(edges))

\* What the loop of complete_pipeline_report reads of one node,
\* src/tools/business_analysis_tools.py lines 360-366.
PipelineDict(node) ==
    [ok |-> /\ OrZero(Get(node.Amount, 0)).ok
            /\ OrZero(Get(node.Probability, 0)).ok
            /\ Get(node.StageName, "Unknown").ok
            /\ GetName(node.Owner, "Unknown").ok
            /\ GetIndustry(node.Account, "Unknown").ok,
     amount |-> OrZero(Get(node.Amount, 0)).v,
     probability |-> OrZero(Get(node.Probability, 0)).v,
     stage |-> Get(node.StageName, "Unknown").v,
     owner |-> GetName(node.Owner, "Unknown").v,
     industry |-> GetIndustry(node.Account, "Unknown").v,
     weighted_value |->
         IF OrZero(Get(node.Amount, 0)).ok /\ OrZero(Get(node.Probability, 0)).ok
         THEN WeightedValue(OrZero(Get(node.Amount, 0)).v[1],
                            OrZero(Get(node.Probability, 0)).v[1])
         ELSE 0]

\* What top_opportunities reads of one node, lines 439-443.
TopOpportunityOk(node) ==
    /\ Get(node.Name, "").ok
    /\ Get(node.StageName, "").ok
    /\ GetName(node.Account, "").ok
    /\ GetName(node.Owner, "").ok

\* The deal size ranges, lines 372-377.
SmallBelow == 25000
MediumBelow == 100000
DealSizeRange(amount) ==
    IF amount < SmallBelow THEN "Small (<$25k)"
    ELSE IF amount < MediumBelow THEN "Medium ($25k-$100k)"
    ELSE "Large ($100k+)"
DealSizeRanges(amounts) ==
    [r \in {"Small (<$25k)", "Medium ($25k-$100k)", "Large ($100k+)"} |->
        Cardinality({i \in 1..Len(amounts) : DealSizeRange(amounts[i]) = r})]

\* "Closed Won" in stage: the stage names of the model contain "Closed Won"
\* or "Closed Lost" only when they are that name; of None it is a TypeError.
StageIsText(deals) == \A i \in 1..Len(deals) : deals[i].stage # <<>>
NumberIn(deals, stage) ==
    Cardinality({i \in 1..Len(deals) : deals[i].stage = <<stage>>})

\* win_rate, lines 411-413, in percent
WinRate(won, lost) ==
    IF won + lost > 0 THEN Ratio(won * 100, won + lost) ELSE Zero

\* max(amounts, default=0), line 428
LargestDeal(amounts) ==
    IF amounts = <<>> THEN 0
    ELSE CHOOSE a \in Range(amounts) : \A b \in Range(amounts) : b <= a

\* complete_pipeline_report from the edges on,
\* src/tools/business_analysis_tools.py lines 348-456.
PipelineDicts(edges) == [i \in 1..Len(edges) |-> PipelineDict(edges[i])]
PipelineSummary(edges, deals) ==
    IF ~AllOk(deals) THEN FailureReport("AttributeError")
    ELSE IF ~StageIsText(deals) THEN FailureReport("TypeError")
    ELSE IF \E i \in 1..Len(edges) : ~TopOpportunityOk(edges[i])
    THEN FailureReport("AttributeError")
    ELSE [kind |-> "return", success |-> TRUE,
          total_opportunities |-> Len(edges),
          total_pipeline_value |-> SumSeq(Amounts(deals)),
          weighted_pipeline_value |-> SumSeq(Weighted(deals)),
          average_deal_size |-> RatioOrZero(SumSeq(Amounts(deals)), Len(edges)),
          win_rate_percent |-> WinRate(NumberIn(deals, "Closed Won"),
                                       NumberIn(deals, "Closed Lost")),
          largest_deal |-> LargestDeal(Amounts(deals)),
          by_stage |-> SortedDesc(Breakdown(Stages(deals), Amounts(deals),
                                            Weighted(deals))),
          by_owner |-> SortedDesc(Breakdown(Owners(deals), Amounts(deals),
                                            Weighted(deals))),
          by_industry |-> SortedDesc(Breakdown(Industries(deals), Amounts(deals),
                                               Weighted(deals))),
          by_deal_size |-> DealSizeRanges(Amounts(deals))]
PipelineReport(edges) == PipelineSummary(edges, PipelineDicts(edges))

\* What account_opportunity_analysis reads of one opportunity node,
\* src/tools/business_analysis_tools.py lines 531-551; get("Id", "") keeps a
\* null Id.
AccountOppDict(node) ==
    [ok |-> /\ GetId(node.Account).ok
            /\ GetName(node.Account, "Unknown").ok
            /\ OrZero(Get(node.Amount, 0)).ok
            /\ Get(node.Name, "").ok
            /\ Get(node.StageName, "").ok,
     account_id |-> IF node.Account.w = "absent" THEN <<"">>
                    ELSE GetId(node.Account).v,
     account_name |-> GetName(node.Account, "Unknown").v,
     amount |-> OrZero(Get(node.Amount, 0)).v,
     weighted_value |-> 0]

\* account_opportunity_analysis from the two lists of edges on, lines
\* 523-590; the fields copied from the account edges are left out.
AccountIds(dicts) == [i \in 1..Len(dicts) |-> dicts[i].account_id]
AccountOppDicts(edges) == [i \in 1..Len(edges) |-> AccountOppDict(edges[i])]
AccountOppSummary(account_edges, opps) ==
    IF ~AllOk(opps) THEN FailureReport("AttributeError")
    ELSE [kind |-> "return", success |-> TRUE,
          total_accounts |-> Len(account_edges),
          total_opportunities |-> Len(opps),
          accounts_with_opportunities |-> Len(FirstSeen(AccountIds(opps))),
          total_pipeline_value |-> SumSeq(Amounts(opps)),
          account_opportunity_breakdown |->
              SortedDesc(Breakdown(AccountIds(opps), Amounts(opps),
                                   Weighted(opps)))]
AccountOppReport(account_edges, opp_edges) ==
    AccountOppSummary(account_edges, AccountOppDicts(opp_edges))

----------------------------------------------------------------------------
(* The reports of the tools that read validated records *)

\* record.F and record.F.get('value'): the field is a wrapper that holds a
\* value that is neither None nor 0 (a number) nor "" (a text).
HasNumber(field) == field.w = "obj" /\ field.v # <<>> /\ field.v[1] # 0
HasText(field) == field.w = "obj" /\ field.v # <<>> /\ field.v[1] # ""

\* The values of the fields that hold one, in the order of the records.
NumbersOf(fields) ==
    [n \in 1..Len(SelectSeq(fields, HasNumber)) |->
        SelectSeq(fields, HasNumber)[n].v[1]]
TextsOf(fields) ==
    [n \in 1..Len(SelectSeq(fields, HasText)) |->
        SelectSeq(fields, HasText)[n].v]

\* The report of a tool that found no record.
MessageReport(message) == [kind |-> "return", message |-> message]

\* An analysis left as the empty dict.
EmptyDict == [empty |-> TRUE]

MinOf(xs) == CHOOSE a \in Range(xs) : \A b \in Range(xs) : a <= b
MaxOf(xs) == CHOOSE a \in Range(xs) : \A b \in Range(xs) : b <= a

\* sorted(xs): ascending and stable
RankAsc(xs, i) ==
    1 + Cardinality({j \in 1..Len(xs) :
                        \/ xs[j] < xs[i]
                        \/ xs[j] = xs[i] /\ j < i})
Sorted(xs) ==
    [p \in 1..Len(xs) |-> xs[CHOOSE i \in 1..Len(xs) : RankAsc(xs, i) = p]]

\* sorted(xs)[len(xs)//2], src/tools/accounts.py lines 259 and 273; the
\* sequences of the model count from 1.
MedianIndex(n) == (n \div 2) + 1
Median(xs) == Sorted(xs)[MedianIndex(Len(xs))]

\* dict(Counter(ks)): the keys in the order they are first seen, each with
\* the number of its occurrences.
CountOf(k, ks) == Cardinality({i \in 1..Len(ks) : ks[i] = k})
Counted(keys, ks) ==
    [n \in 1..Len(keys) |-> [key |-> keys[n], count |-> CountOf(keys[n], ks)]]
Counter(ks) == Counted(FirstSeen(ks), ks)

\* The comparisons of the ranges: r < bound and r >= bound.
BelowOrAt(r, bound) == r <= bound
Below(r, bound) == r < bound
AtLeast(r, bound) == r >= bound
NumberBelow(xs, hi) ==
    Cardinality({i \in 1..Len(xs) : Below(xs[i], hi)})
NumberBetween(xs, lo, hi) ==
    Cardinality({i \in 1..Len(xs) : AtLeast(xs[i], lo) /\ Below(xs[i], hi)})
NumberAtLeast(xs, lo) ==
    Cardinality({i \in 1..Len(xs) : AtLeast(xs[i], lo)})

\* revenue_ranges, src/tools/accounts.py lines 261-266
RevenueRangeNames == <<"under_1M", "1M_10M", "10M_100M", "over_100M">>
RevenueRanges(revenues) ==
    [b \in Range(RevenueRangeNames) |->
        CASE b = "under_1M" -> NumberBelow(revenues, 1000000)
          [] b = "1M_10M" -> NumberBetween(revenues, 1000000, 10000000)
          [] b = "10M_100M" -> NumberBetween(revenues, 10000000, 100000000)
          [] b = "over_100M" -> NumberAtLeast(revenues, 100000000)]

\* size_ranges, src/tools/accounts.py lines 274-279
SizeRangeNames ==
    <<"small_1_50", "medium_50_500", "large_500_5000", "enterprise_5000+">>
SizeRanges(employee_counts) ==
    [b \in Range(SizeRangeNames) |->
        CASE b = "small_1_50" -> NumberBelow(employee_counts, 50)
          [] b = "medium_50_500" -> NumberBetween(employee_counts, 50, 500)
          [] b = "large_500_5000" -> NumberBetween(employee_counts, 500, 5000)
          [] b = "enterprise_5000+" -> NumberAtLeast(employee_counts, 5000)]

IndustryFields(accounts) == [i \in 1..Len(accounts) |-> accounts[i].Industry]
RevenueFields(accounts) ==
    [i \in 1..Len(accounts) |-> accounts[i].AnnualRevenue]
EmployeeFields(accounts) ==
    [i \in 1..Len(accounts) |-> accounts[i].NumberOfEmployees]

\* analyze_account_trends from the accounts on, src/tools/accounts.py lines
\* 214-288; the geographic distribution is left out.
RevenueDistribution(revenues) ==
    IF revenues = <<>> THEN EmptyDict
    ELSE [average_revenue |-> Ratio(SumSeq(revenues), Len(revenues)),
          median_revenue |-> Median(revenues),
          total_revenue |-> SumSeq(revenues),
          revenue_ranges |-> RevenueRanges(revenues)]
SizeAnalysis(employee_counts) ==
    IF employee_counts = <<>> THEN EmptyDict
    ELSE [average_employees |->
              Ratio(SumSeq(employee_counts), Len(employee_counts)),
          median_employees |-> Median(employee_counts),
          size_ranges |-> SizeRanges(employee_counts)]
AccountTrendsReport(accounts) ==
    IF accounts = <<>> THEN MessageReport("No accounts found")
    ELSE [kind |-> "return",
          total_accounts |-> Len(accounts),
          industry_patterns |-> Counter(TextsOf(IndustryFields(accounts))),
          revenue_distribution |->
              RevenueDistribution(NumbersOf(RevenueFields(accounts))),
          size_analysis |-> SizeAnalysis(NumbersOf(EmployeeFields(accounts)))]

\* get_account_statistics from the accounts on, src/tools/accounts.py lines
\* 137-184.
RevenueAnalysis(revenues) ==
    IF revenues = <<>> THEN EmptyDict
    ELSE [average_revenue |-> Ratio(SumSeq(revenues), Len(revenues)),
          min_revenue |-> MinOf(revenues),
          max_revenue |-> MaxOf(revenues),
          total_revenue |-> SumSeq(revenues)]
EmployeeAnalysis(employee_counts) ==
    IF employee_counts = <<>> THEN EmptyDict
    ELSE [average_employees |->
              Ratio(SumSeq(employee_counts), Len(employee_counts)),
          min_employees |-> MinOf(employee_counts),
          max_employees |-> MaxOf(employee_counts)]
AccountStatisticsReport(accounts) ==
    IF accounts = <<>> THEN MessageReport("No accounts found")
    ELSE [kind |-> "return",
          total_accounts |-> Len(accounts),
          industry_distribution |-> Counter(TextsOf(IndustryFields(accounts))),
          revenue_analysis |-> RevenueAnalysis(NumbersOf(RevenueFields(accounts))),
          employee_analysis |->
              EmployeeAnalysis(NumbersOf(EmployeeFields(accounts)))]

\* analyze_opportunity_trends from the opportunities on,
\* src/tools/opportunities.py lines 222-273.
AmountFields(opps) == [i \in 1..Len(opps) |-> opps[i].Amount]
ProbabilityFields(opps) == [i \in 1..Len(opps) |-> opps[i].Probability]
StageFields(opps) == [i \in 1..Len(opps) |-> opps[i].StageName]
AmountAnalysis(amounts) ==
    IF amounts = <<>> THEN EmptyDict
    ELSE [average_amount |-> Ratio(SumSeq(amounts), Len(amounts)),
          min_amount |-> MinOf(amounts),
          max_amount |-> MaxOf(amounts),
          total_pipeline |-> SumSeq(amounts)]
ProbabilityAnalysis(probabilities) ==
    IF probabilities = <<>> THEN EmptyDict
    ELSE [average_probability |->
              Ratio(SumSeq(probabilities), Len(probabilities)),
          min_probability |-> MinOf(probabilities),
          max_probability |-> MaxOf(probabilities)]
OpportunityTrendsReport(opportunities) ==
    IF opportunities = <<>> THEN MessageReport("No opportunities found")
    ELSE [kind |-> "return",
          total_opportunities |-> Len(opportunities),
          amount_analysis |-> AmountAnalysis(NumbersOf(AmountFields(opportunities))),
          probability_analysis |->
              ProbabilityAnalysis(NumbersOf(ProbabilityFields(opportunities))),
          stage_distribution |-> Counter(TextsOf(StageFields(opportunities)))]

----------------------------------------------------------------------------
(* The tools applied to the records of an answer *)

MaxRecords == 3
MaxAccounts == 4

\* An opportunity node as the queries select it.
Node(id, name, amount, stage, probability, account, owner) ==
    [Id |-> id, Name |-> name, Amount |-> amount, StageName |-> stage,
     Probability |-> probability, Account |-> account, Owner |-> owner]

Acme == Rel("001A", Obj("Acme"), Obj("Tech"))
Globex == Rel("001B", Obj("Globex"), Obj("Retail"))
Ann == Rel("005A", Obj("Ann"), Absent)
Bo == Rel("005B", Obj("Bo"), Absent)

\* Well-formed nodes: two amounts, three stages, two owners.
GoodNodes ==
    {Node("006", Obj("Deal"), Obj(amount), Obj(stage),
          Obj(IF owner = Ann THEN 25 ELSE 50),
          IF amount = 10000 THEN Acme ELSE Globex, owner) :
        amount \in {10000, 100000},
        stage \in {"Prospecting", "Closed Won"},
        owner \in {Ann, Bo}}
    \cup {Node("006", Obj("Deal"), Obj(50000), Obj("Closed Lost"), Obj(0),
               Acme, Ann)}

BaseNode ==
    Node("006", Obj("Deal"), Obj(100000), Obj("Prospecting"), Obj(25), Acme, Ann)

\* The ways a field can differ from {"value": x}.
Defects(x) == {Absent, Null, NoValue, ObjNull, Scalar(x)}

\* The record query_opportunities would be handed if its fields were already
\* plain scalars.
FlatNode ==
    Node("006", Scalar("Deal"), Scalar(100000), Scalar("Prospecting"),
         Scalar(25), Rel("001A", Scalar("Acme"), Scalar("Tech")),
         Rel("005A", Scalar("Ann"), Absent))

\* Nodes with one defective field or relation.
DefectNodes ==
    {[BaseNode EXCEPT !.Name = d] : d \in Defects("Deal")}
    \cup {[BaseNode EXCEPT !.Amount = d] : d \in Defects(100000)}
    \cup {[BaseNode EXCEPT !.StageName = d] : d \in Defects("Prospecting")}
    \cup {[BaseNode EXCEPT !.Probability = d] : d \in Defects(25)}
    \cup {[BaseNode EXCEPT !.Account = r] :
             r \in {NoRel, NullRel, Rel("001A", Absent, Absent),
                    Rel("001A", Null, Obj("Tech")),
                    Rel("001A", Obj("Acme"), Null)}}
    \cup {[BaseNode EXCEPT !.Owner = r] :
             r \in {NoRel, NullRel, Rel("005A", Absent, Absent),
                    Rel("005A", Null, Absent)}}
    \cup {FlatNode}

\* A record passes the validation of models.py when no wrapper is a plain
\* scalar.
IsWrapper(field) == field.w # "scalar"
Validates(node) ==
    /\ IsWrapper(node.Name) /\ IsWrapper(node.Amount)
    /\ IsWrapper(node.StageName) /\ IsWrapper(node.Probability)
    /\ IsWrapper(node.Account.Name) /\ IsWrapper(node.Owner.Name)

\* An account as get_recent_accounts returns it.
Account(industry, revenue, employees) ==
    [Industry |-> industry, AnnualRevenue |-> revenue,
     NumberOfEmployees |-> employees]
Accounts ==
    {Account(Obj("Tech"), Obj(n), Obj(n)) : n \in {10, 20, 30, 40}}
    \cup {Account(Obj("Retail"), Obj(999999), Obj(49)),
          Account(Obj("Retail"), Obj(1000000), Obj(50)),
          Account(Obj("Retail"), Obj(10000000), Obj(500)),
          Account(Obj("Energy"), Obj(100000000), Obj(5000)),
          Account(Absent, Null, ObjNull)}

\* The edges of the account query of account_opportunity_analysis; the
\* report counts them.
AccountEdges == {<<>>, <<[Id |-> "001A"]>>}

EdgeTools ==
    {"query_opportunities", "high_value_pipeline_analysis",
     "sales_stage_analysis", "complete_pipeline_report"}
AccountAnalysisTools == {"analyze_account_trends", "get_account_statistics"}

EdgeReport(t, edges) ==
    CASE t = "query_opportunities" -> QueryOpportunitiesReport(edges)
      [] t = "high_value_pipeline_analysis" -> HighValueReport(edges)
      [] t = "sales_stage_analysis" -> SalesStageReport(edges)
      [] t = "complete_pipeline_report" -> PipelineReport(edges)

AccountReport(t, accounts) ==
    CASE t = "analyze_account_trends" -> AccountTrendsReport(accounts)
      [] t = "get_account_statistics" -> AccountStatisticsReport(accounts)

callvars == <<server, env, salesforce_client, pc, args, doc, sent, resp, exec,
              result>>

InitAggregate ==
    /\ InitTool
    /\ InitSequential
    /\ env = [url |-> "", token |-> ""]
    /\ now = [y |-> 2024, m |-> 1, d |-> 15]
    /\ range_type = NotADateRange
    /\ date_result = NoResult
    /\ records \in SeqsUpTo(GoodNodes, MaxRecords)
                      \cup {<<n>> : n \in DefectNodes}
    /\ report = NoReport

\* One of the four tools that read the edges of one answer processes them.
Aggregate ==
    /\ report = NoReport
    /\ \E t \in EdgeTools :
        /\ tool' = t
        /\ report' = EdgeReport(t, records)
    /\ UNCHANGED <<callvars, now, datevars, records, concvars>>

\* account_opportunity_analysis processes the edges of its two answers.
AnalyzeAccountOpportunities ==
    /\ report = NoReport
    /\ \E account_edges \in AccountEdges :
        report' = AccountOppReport(account_edges, records)
    /\ tool' = "account_opportunity_analysis"
    /\ UNCHANGED <<callvars, now, datevars, records, concvars>>

\* analyze_opportunity_trends processes the opportunities the client
\* returned.
AnalyzeOpportunityTrends ==
    /\ report = NoReport
    /\ \A i \in 1..Len(records) : Validates(records[i])
    /\ tool' = "analyze_opportunity_trends"
    /\ report' = OpportunityTrendsReport(records)
    /\ UNCHANGED <<callvars, now, datevars, records, concvars>>

NextAggregate ==
    \/ Aggregate
    \/ AnalyzeAccountOpportunities
    \/ AnalyzeOpportunityTrends

SpecAggregate == InitAggregate /\ [][NextAggregate]_vars

\* Answers with up to MaxDeals opportunities, enough for a stage to hold more
\* deals than its top_deals keeps.
MaxDeals == 6
StageNodes ==
    {Node("006", Obj("A"), Obj(10000), Obj("Prospecting"), Obj(25), Acme, Ann),
     Node("006", Obj("B"), Obj(50000), Obj("Prospecting"), Obj(50), Acme, Bo),
     Node("006", Obj("C"), Obj(100000), Obj("Prospecting"), Obj(75), Globex, Bo),
     Node("006", Obj("D"), Obj(100000), Obj("Closed Won"), Obj(100), Globex, Ann)}

InitStages ==
    /\ InitTool
    /\ InitSequential
    /\ env = [url |-> "", token |-> ""]
    /\ now = [y |-> 2024, m |-> 1, d |-> 15]
    /\ range_type = NotADateRange
    /\ date_result = NoResult
    /\ records \in SeqsUpTo(StageNodes, MaxDeals)
    /\ report = NoReport

NextStages == Aggregate

SpecStages == InitStages /\ [][NextStages]_vars

InitAccounts ==
    /\ InitTool
    /\ InitSequential
    /\ env = [url |-> "", token |-> ""]
    /\ now = [y |-> 2024, m |-> 1, d |-> 15]
    /\ range_type = NotADateRange
    /\ date_result = NoResult
    /\ records \in SeqsUpTo(Accounts, MaxAccounts)
    /\ report = NoReport

\* analyze_account_trends or get_account_statistics processes the accounts
\* the client returned.
AnalyzeAccounts ==
    /\ report = NoReport
    /\ \E t \in AccountAnalysisTools :
        /\ tool' = t
        /\ report' = AccountReport(t, records)
    /\ UNCHANGED <<callvars, now, datevars, records, concvars>>

NextAccounts == AnalyzeAccounts

SpecAccounts == InitAccounts /\ [][NextAccounts]_vars

----------------------------------------------------------------------------
(* Tool calls that run concurrently on the event loop *)

NumCalls == 3
Calls == 1..NumCalls

\* A call: its position, its tool, the handle it was given and the serial
\* number of that object, the number of requests it has posted and the
\* endpoint of the last one.
IdleCall ==
    [pc |-> "idle", tool |-> None, client |-> NoClient, serial |-> 0,
     posted |-> 0, url |-> ""]

ConcurrentTools == {"get_recent_accounts", "account_opportunity_analysis"}

\* The answers a concurrent call can get: a record, or no connection.
ConcurrentResponses ==
    {[kind |-> "response", status |-> 200,
      body |-> [errors |-> <<>>, data |-> "one"]],
     [kind |-> "ConnectError", status |-> 0, body |-> NoBody]}

InitConcurrent ==
    /\ InitTool
    /\ env \in Envs
    /\ now = [y |-> 2024, m |-> 1, d |-> 15]
    /\ range_type = NotADateRange
    /\ date_result = NoResult
    /\ records = <<>> /\ report = NoReport
    /\ invocations = [p \in Calls |-> IdleCall]
    /\ constructed = 0

\* Call p starts tool t and runs to its first await: get_salesforce_client
\* has no await, so that its test and its assignment are one step of the
\* event loop; then the first request is posted to the handle's endpoint.
Begin(p, t) ==
    /\ server = "serving"
    /\ invocations[p].pc = "idle"
    /\ LET c == get_salesforce_client(salesforce_client, env)
       IN  IF ~c.ok
           THEN /\ invocations' =
                       [invocations EXCEPT ![p].pc = "done", ![p].tool = t]
                /\ UNCHANGED <<salesforce_client, constructed>>
           ELSE /\ salesforce_client' = c.client
                /\ constructed' = constructed + (IF c.created THEN 1 ELSE 0)
                /\ invocations' =
                       [invocations EXCEPT ![p] =
                           [pc |-> "inflight", tool |-> t, client |-> c.client,
                            serial |-> constructed
                                         + (IF c.created THEN 1 ELSE 0),
                            posted |-> 1, url |-> c.client.base_url]]
    /\ UNCHANGED <<server, env, pc, tool, args, doc, sent, resp, exec, result,
                   now>>
    /\ UNCHANGED datevars
    /\ UNCHANGED aggvars

BeginCall == \E p \in Calls : \E t \in ConcurrentTools : Begin(p, t)

\* Call p gets the answer r to its request in flight and runs on to its
\* next request or to its end.
Receive(p, r) ==
    /\ invocations[p].pc = "inflight"
    /\ LET nx == ToolResume(invocations[p].tool, BlankArgs,
                            invocations[p].posted, execute_query(r))
       IN  invocations' =
               IF nx.next = "send"
               THEN [invocations EXCEPT
                        ![p].posted = @ + 1,
                        ![p].url = invocations[p].client.base_url]
               ELSE [invocations EXCEPT ![p].pc = "done"]
    /\ UNCHANGED <<toolvars, now, constructed>>
    /\ UNCHANGED datevars
    /\ UNCHANGED aggvars

ReceiveAnswer == \E p \in Calls : \E r \in ConcurrentResponses : Receive(p, r)

NextConcurrent == Main \/ BeginCall \/ ReceiveAnswer

SpecConcurrent == InitConcurrent /\ [][NextConcurrent]_vars

----------------------------------------------------------------------------
(* Claims *)

Quote == "\""

\* The first position of token t in s (0 when there is none).
IndexOf(s, t) ==
    IF t \in Range(s) THEN CHOOSE i \in 1..Len(s) :
                               s[i] = t /\ \A j \in 1..(i - 1) : s[j] # t
    ELSE 0

Dropped == "<dropped>"
Kept(t) == t # Dropped

\* The number of positions i..j of s that hold token t.
Count(s, t, i, j) == Cardinality({k \in i..j : s[k] = t})

\* Position i of toks lies inside a string literal, or closes one.
InString(toks, i) == Count(toks, Quote, 1, i - 1) % 2 = 1

\* The lexical structure of a document: every string literal is one token
\* "<string>", whatever it holds; a literal left open to the end of the
\* document is "<unterminated>".
Lex(toks) ==
    [i \in 1..Len(toks) |->
        IF toks[i] = Quote
        THEN (IF InString(toks, i) THEN "<string>" ELSE Dropped)
        ELSE IF InString(toks, i) THEN Dropped ELSE toks[i]]

Skeleton(toks) ==
    SelectSeq(Lex(toks), Kept)
    \o (IF InString(toks, Len(toks) + 1) THEN <<"<unterminated>">> ELSE <<>>)

\* The nesting depth of position i of sk, counted from position w on.
Depth(sk, w, i) == Count(sk, "{", w, i - 1) - Count(sk, "}", w, i - 1)

\* The position that closes the object opened after position w.
CloseOf(sk, w) ==
    IF \E i \in (w + 1)..Len(sk) : sk[i] = "}" /\ Depth(sk, w, i) = 1
    THEN CHOOSE i \in (w + 1)..Len(sk) :
             /\ sk[i] = "}" /\ Depth(sk, w, i) = 1
             /\ \A j \in (w + 1)..(i - 1) :
                    ~(sk[j] = "}" /\ Depth(sk, w, j) = 1)
    ELSE Len(sk)

\* The tokens that lie directly inside the object opened after position w,
\* separators left out.
Scan(sk, w, close) ==
    [i \in 1..Len(sk) |->
        IF /\ i > w /\ i < close
           /\ Depth(sk, w, i) = 1
           /\ sk[i] \notin {"{", "}", ","}
        THEN sk[i] ELSE Dropped]

\* The fields filtered on by the where argument of a document, in order.
FieldsAfter(sk, w) ==
    IF w = 0 THEN <<>> ELSE SelectSeq(Scan(sk, w, CloseOf(sk, w)), Kept)
WhereFields(toks) == FieldsAfter(Skeleton(toks), IndexOf(Skeleton(toks), "where:"))

\* The arguments of the queried object: the tokens between the first
\* parentheses; and the selection that follows them.
Between(sk, i, j) == SubSeq(sk, i + 1, j - 1)
ArgTokens(toks) ==
    Between(Skeleton(toks), IndexOf(Skeleton(toks), "("),
            IndexOf(Skeleton(toks), ")"))
After(sk, i) == SubSeq(sk, i + 1, Len(sk))
Projection(toks) == After(Skeleton(toks), IndexOf(Skeleton(toks), ")"))

\* The answer received is a failure of the request: no response, a status
\* that is not 2xx, a non-empty errors list, or a body without data.
NonEmptyErrors(body) == body.errors # <<>> /\ Len(body.errors[1]) > 0
Is2xx(status) == status \in 200..299
RequestFailed ==
    /\ resp # NoResponse
    /\ \/ resp.kind # "response"
       \/ ~Is2xx(resp.status)
       \/ NonEmptyErrors(resp.body)
       \/ resp.body.data = "null"

\* C1: whatever the outcome of the remote request, and when the handle
\* cannot be created, the tool returns a payload with success = false and
\* lets no exception escape.
C1_NeverRaises ==
    pc = "done" =>
        /\ result.kind = "return"
        /\ RequestFailed => ("success" \in result.keys /\ ~result.success)

\* C2: every result returned has a success flag, and every failure result
\* has success = false, an error message and an error_type.
C2_ResultShape ==
    (pc = "done" /\ result.kind = "return") =>
        /\ "success" \in result.keys
        /\ ("error" \in result.keys \/ ~result.success) =>
               /\ ~result.success
               /\ {"error", "error_type"} \subseteq result.keys
               /\ result.error_type # ""

\* C3: for a 2xx response, execute_query fails exactly when the errors list
\* of the body is non-empty; errors: [] and no errors key are successes.
C3_ErrorsDecide ==
    (exec # NoExec /\ resp.kind = "response" /\ Is2xx(resp.status)) =>
        (exec.ok <=> ~NonEmptyErrors(resp.body))

\* A 2xx answer whose body holds errors: [] was taken as a success.
C3_Witness ==
    /\ exec # NoExec /\ resp.kind = "response" /\ resp.status = 200
    /\ resp.body.errors = << <<>> >>
    /\ exec.ok

\* The class of an answer and the class of an outcome of execute_query.
AnswerClass ==
    IF resp.kind # "response" THEN "network"
    ELSE IF ~Is2xx(resp.status) THEN "http"
    ELSE IF NonEmptyErrors(resp.body) THEN "graphql"
    ELSE "success"

OutcomeClass ==
    IF exec.ok THEN "success"
    ELSE IF exec.exc \in {"ConnectError", "ReadTimeout"} THEN "network"
    ELSE IF exec.msg[1] = "API request failed: " THEN "http"
    ELSE "graphql"

\* C4: execute_query returns the parsed body iff the status is 2xx and the
\* errors list is empty or absent; a status that is not 2xx gives an error
\* carrying the status code whatever the body holds; a network failure or
\* timeout gives an error; every answer falls in exactly one of the classes.
C4_Outcomes ==
    exec # NoExec =>
        /\ OutcomeClass = AnswerClass
        /\ exec.ok => exec.body = resp.body
        /\ AnswerClass = "http" => ToString(resp.status) \in Range(exec.msg)

\* A redirect whose body is a well-formed success body is still an error.
C4_Witness ==
    /\ exec # NoExec /\ resp.kind = "response" /\ resp.status = 302
    /\ resp.body = [errors |-> <<>>, data |-> "one"]
    /\ ~exec.ok

\* C5: a request is answered once and, when execute_query fails on the
\* answer, the tool call ends without sending anything more; no document is
\* sent twice within a call.
C5_NoResend ==
    [][pc = "inflight" =>
          /\ ~exec'.ok => (sent' = sent /\ pc' = "done")
          /\ \A i, j \in 1..Len(sent') : i # j => sent'[i] # sent'[j]]_vars

\* The two-request tool ended at the failure of its first request.
C5_Witness ==
    /\ tool = "account_opportunity_analysis" /\ pc = "done"
    /\ exec # NoExec /\ ~exec.ok
    /\ Len(sent) = 1

\* The same call with the letter a in the place of every string filter.
Letter == <<"a">>
BenignArgs ==
    CASE tool = "query_opportunities" -> [args EXCEPT !.stage = Letter]
      [] tool = "query_accounts" -> [args EXCEPT !.industry = Letter]
      [] tool = "get_object_fields" -> [args EXCEPT !.object_name = Letter]
      [] tool = "sales_stage_analysis" ->
            [args EXCEPT !.exclude_stages =
                <<[i \in 1..Len(args.exclude_stages[1]) |-> Letter]>>]
      [] OTHER -> args

StringFilterGiven ==
    \/ tool = "query_opportunities" /\ args.stage # <<>>
    \/ tool = "query_accounts" /\ args.industry # <<>>
    \/ tool = "get_object_fields" /\ args.object_name # <<>>
    \/ /\ tool = "sales_stage_analysis"
       /\ args.exclude_stages # <<>>
       /\ \A i \in 1..Len(args.exclude_stages[1]) :
              args.exclude_stages[1][i] # <<>>

\* C6: two values of a string filter give documents that differ only inside
\* the one string literal: the document sent has the lexical structure of
\* the document the same call sends for the value "a".
C6_OnlyTheLiteralDiffers ==
    (pc = "inflight" /\ StringFilterGiven) =>
        Skeleton(doc.query)
            = Skeleton(ToolStart(tool, BenignArgs, now).request.query)

TimePeriodSupplied == args.time_period # <<>> /\ args.time_period[1] # <<>>

SuppliedFields ==
    (IF TimePeriodSupplied THEN <<"CloseDate:">> ELSE <<>>)
    \o (IF args.stage # <<>> THEN <<"StageName:">> ELSE <<>>)
    \o (IF args.min_amount # <<>> THEN <<"Amount:">> ELSE <<>>)

\* C7: the where argument of query_opportunities holds one condition per
\* filter the caller supplied and none for a filter not supplied; a call
\* without a time period carries no close-date condition. Stated for the
\* calls whose stage holds no double quote.
C7_OnlySuppliedFilters ==
    (pc = "inflight" /\ tool = "query_opportunities"
     /\ Quote \notin Range(args.stage)) =>
        WhereFields(doc.query) = SuppliedFields

NoFilterInEffect ==
    \/ /\ tool = "query_opportunities"
       /\ args.time_period = << <<>> >>
       /\ args.stage = <<>> /\ args.min_amount = <<>>
    \/ tool = "query_accounts" /\ args.industry = <<>>
    \/ tool = "sales_stage_analysis" /\ args.exclude_stages \in {<<>>, << <<>> >>}

\* The same call with one filter, the letter a.
FilteredArgs ==
    CASE tool = "query_opportunities" -> [args EXCEPT !.stage = Letter]
      [] tool = "query_accounts" -> [args EXCEPT !.industry = Letter]
      [] tool = "sales_stage_analysis" ->
            [args EXCEPT !.exclude_stages = << <<Letter>> >>]
      [] OTHER -> args

\* C8: with no filter in effect the document has no where argument at all,
\* its arguments are first and orderBy, and its projection is the one of the
\* filtered document.
C8_NoWhereWithoutFilter ==
    (pc = "inflight" /\ NoFilterInEffect) =>
        /\ "where:" \notin Range(doc.query)
        /\ SubSeq(ArgTokens(doc.query), 1, 3)
               = <<"first:", ToString(args.limit), "orderBy:">>
        /\ Projection(doc.query)
               = Projection(ToolStart(tool, FilteredArgs, now).request.query)
        /\ "where:" \in Range(ToolStart(tool, FilteredArgs, now).request.query)

\* query_opportunities called with time_period "", no stage, no min_amount.
C8_Witness ==
    /\ pc = "inflight" /\ tool = "query_opportunities"
    /\ args.time_period = << <<>> >>
    /\ args.stage = <<>> /\ args.min_amount = <<>>
    /\ Len(doc.query) > 0

\* The tools that take a limit.
LimitTools ==
    {"query_opportunities", "query_accounts", "high_value_pipeline_analysis",
     "sales_stage_analysis", "search_opportunities", "search_accounts",
     "get_recent_opportunities", "get_recent_accounts"}

MaxPageSize == 100
PageSizes == {ToString(n) : n \in 1..MaxPageSize}

\* C9: the page size sent by a tool that takes a limit is a positive integer
\* not above the maximum page size of 100.
C9_PageSizeBounded ==
    (pc = "inflight" /\ tool \in LimitTools) =>
        \A i \in 1..(Len(doc.query) - 1) :
            doc.query[i] = "first:" => doc.query[i + 1] \in PageSizes

\* C10: for each of the eight supported periods and every reference date,
\* get_date_range returns two valid calendar dates with start <= end; a
\* period that is not supported raises the invalid-period ValueError and
\* nothing else.
C10_ValidWindow ==
    date_result # NoResult =>
        IF range_type \in DateRange
        THEN /\ date_result.ok
             /\ ValidDate(date_result.start)
             /\ ValidDate(date_result.end)
             /\ ToOrdinal(date_result.start) <= ToOrdinal(date_result.end)
        ELSE /\ ~date_result.ok
             /\ date_result.error = "ValueError: Unsupported date range"

\* The month of 29 February 2024 resolved from its last day.
C10_Witness ==
    /\ date_result # NoResult
    /\ date_result.ok
    /\ range_type = "THIS_MONTH"
    /\ now = [y |-> 2024, m |-> 2, d |-> 29]
    /\ date_result.end = now

Date(y, m, d) == [y |-> y, m |-> m, d |-> d]

\* The quarter of the reference date, 0 to 3, and the last day of a quarter.
QuarterIndex == (now.m - 1) \div 3
QuarterLastDay(m) == IF m \in {6, 9} THEN 30 ELSE 31

\* C11: this_quarter runs from day 1 of the first month of the quarter of
\* the reference date to the last day of its third month; last_quarter is
\* 1 October to 31 December of the previous year from January to March, and
\* the preceding aligned block of the same year otherwise.
C11_QuarterAligned ==
    (date_result # NoResult /\ range_type \in {"THIS_QUARTER", "LAST_QUARTER"}) =>
        /\ date_result.ok
        /\ date_result.start.m \in {1, 4, 7, 10}
        /\ IF range_type = "THIS_QUARTER"
           THEN /\ date_result.start = Date(now.y, 3 * QuarterIndex + 1, 1)
                /\ date_result.end = Date(now.y, 3 * QuarterIndex + 3,
                                          QuarterLastDay(3 * QuarterIndex + 3))
           ELSE IF now.m <= 3
           THEN /\ date_result.start = Date(now.y - 1, 10, 1)
                /\ date_result.end = Date(now.y - 1, 12, 31)
           ELSE /\ date_result.start = Date(now.y, 3 * QuarterIndex - 2, 1)
                /\ date_result.end = Date(now.y, 3 * QuarterIndex,
                                          QuarterLastDay(3 * QuarterIndex))

\* last_quarter asked on 15 January 2024 is the last quarter of 2023.
C11_Witness ==
    /\ date_result # NoResult /\ date_result.ok
    /\ range_type = "LAST_QUARTER"
    /\ now = Date(2024, 1, 15)
    /\ date_result.start_date = "2023-10-01"
    /\ date_result.end_date = "2023-12-31"

\* 2 January 2023 was a Monday.
KnownMonday == Date(2023, 1, 2)
IsMonday(d) == (ToOrdinal(d) - ToOrdinal(KnownMonday)) % 7 = 0
Contains_now(r) ==
    ToOrdinal(r.start) <= ToOrdinal(now) /\ ToOrdinal(now) <= ToOrdinal(r.end)

\* C12: this_week is the Monday on or before the reference date to the
\* Sunday six days later, this_month the first to the last day of its month,
\* this_year 1 January to 31 December of its year; each holds the reference
\* date.
C12_WeekMonthYear ==
    (date_result # NoResult /\ range_type \in {"THIS_WEEK", "THIS_MONTH", "THIS_YEAR"}) =>
        /\ date_result.ok
        /\ Contains_now(date_result)
        /\ range_type = "THIS_WEEK" =>
               /\ IsMonday(date_result.start)
               /\ ToOrdinal(date_result.end) = ToOrdinal(date_result.start) + 6
        /\ range_type = "THIS_MONTH" =>
               /\ date_result.start = Date(now.y, now.m, 1)
               /\ date_result.end.y = now.y /\ date_result.end.m = now.m
               /\ ~ValidDate(Date(now.y, now.m, date_result.end.d + 1))
        /\ range_type = "THIS_YEAR" =>
               /\ date_result.start = Date(now.y, 1, 1)
               /\ date_result.end = Date(now.y, 12, 31)

\* The week of Sunday 3 March 2024 starts on Monday 26 February.
C12_Witness ==
    /\ date_result # NoResult /\ date_result.ok
    /\ range_type = "THIS_WEEK"
    /\ now = Date(2024, 3, 3)
    /\ date_result.start = Date(2024, 2, 26)
    /\ date_result.end = now

\* The eight supported period names.
EightPeriodNames ==
    {<<"t", "h", "i", "s", "_", "w", "e", "e", "k">>,
     <<"l", "a", "s", "t", "_", "w", "e", "e", "k">>,
     <<"t", "h", "i", "s", "_", "m", "o", "n", "t", "h">>,
     <<"l", "a", "s", "t", "_", "m", "o", "n", "t", "h">>,
     <<"t", "h", "i", "s", "_", "q", "u", "a", "r", "t", "e", "r">>,
     <<"l", "a", "s", "t", "_", "q", "u", "a", "r", "t", "e", "r">>,
     <<"t", "h", "i", "s", "_", "y", "e", "a", "r">>,
     <<"l", "a", "s", "t", "_", "y", "e", "a", "r">>}

UnknownPeriodGiven ==
    /\ tool = "query_opportunities"
    /\ TimePeriodSupplied
    /\ ReplaceSpaces(Lower(args.time_period[1])) \notin EightPeriodNames

\* C13: query_opportunities given a non-empty time_period that is, lower-cased
\* and with underscores for spaces, none of the eight supported names returns
\* an error result listing the eight names and sends no request.
C13_UnknownPeriod ==
    UnknownPeriodGiven =>
        /\ pc = "done"
        /\ result.kind = "return"
        /\ "error" \in result.keys
        /\ "valid_options" \in result.keys
        /\ result.valid_options = EightPeriodNames
        /\ Cardinality(result.valid_options) = 8
        /\ sent = <<>> /\ doc = NoRequest

\* "this_year " with a trailing space is not a supported name.
C13_Witness ==
    /\ tool = "query_opportunities" /\ pc = "done"
    /\ args.time_period = <<TP_this_year_padded>>
    /\ result.valid_options = EightPeriodNames
    /\ sent = <<>>

\* The tools that normalize the records of an answer have read them.
NormalizingTools == {"query_opportunities", "high_value_pipeline_analysis"}
Normalized ==
    tool \in NormalizingTools /\ report # NoReport /\ Len(records) = 1

MissingOrNull(field) == field.w \in {"absent", "null"}
HasMissingOrNull(node) ==
    /\ node # FlatNode
    /\ \/ MissingOrNull(node.Name) \/ MissingOrNull(node.Amount)
       \/ MissingOrNull(node.StageName) \/ MissingOrNull(node.Probability)
       \/ MissingOrNull(node.Account) \/ MissingOrNull(node.Owner)

\* The defaults query_opportunities is to substitute: "" for a text, 0 for
\* a number, None for the identifier of a relation.
DefaultsSubstituted(node, opp) ==
    /\ MissingOrNull(node.Name) => opp.name = <<"">>
    /\ MissingOrNull(node.Amount) => opp.amount = <<0>>
    /\ MissingOrNull(node.StageName) => opp.stage = <<"">>
    /\ MissingOrNull(node.Probability) => opp.probability = <<0>>
    /\ MissingOrNull(node.Account) => opp.account_id = <<>>
    /\ MissingOrNull(node.Owner) => opp.owner_id = <<>>

\* C14: when a record has a field wrapper that is missing or null, the
\* tools that normalize records complete successfully, and
\* query_opportunities reports the default of the field: "" for a text, 0
\* for a number, null for the identifier of a relation.
C14_DefaultsForMissingOrNull ==
    (Normalized /\ HasMissingOrNull(records[1])) =>
        /\ report.success
        /\ tool = "query_opportunities" =>
               DefaultsSubstituted(records[1], report.opportunities[1])

\* C15: when the fields of a record are already plain scalars,
\* query_opportunities does not fail and reports each scalar unchanged.
C15_FlatRecordUnchanged ==
    (Normalized /\ tool = "query_opportunities" /\ records[1] = FlatNode) =>
        /\ report.success
        /\ report.opportunities[1].name = <<"Deal">>
        /\ report.opportunities[1].amount = <<100000>>
        /\ report.opportunities[1].stage = <<"Prospecting">>
        /\ report.opportunities[1].probability = <<25>>

\* The counts, the totals and the averages a report can hold.
CountFields ==
    {"total_opportunities", "unique_stages", "accounts_with_opportunities"}
TotalFields ==
    {"total_value", "total_pipeline_value", "weighted_pipeline_value",
     "largest_deal"}
AverageFields ==
    {"average_deal_size", "avg_deal_size", "average_probability",
     "win_rate_percent"}

\* A report of zero records: it succeeded, it holds a count, and every
\* count, total and average it holds is 0.
ZeroReport(r) ==
    /\ r.kind = "return"
    /\ "success" \in DOMAIN r => r.success
    /\ "total_opportunities" \in DOMAIN r
    /\ \A f \in CountFields \cap DOMAIN r : r[f] = 0
    /\ \A f \in TotalFields \cap DOMAIN r : r[f] = 0
    /\ \A f \in AverageFields \cap DOMAIN r : r[f].num = 0

\* C16: every tool that aggregates opportunities answers zero records with
\* a report of zero counts and zero summaries, and with no exception.
C16_EmptyGivesZeros ==
    (records = <<>> /\ report # NoReport) => ZeroReport(report)

\* analyze_account_trends has reported on accounts that hold revenues.
RevenuesOf(accounts) == NumbersOf(RevenueFields(accounts))
EmployeesOf(accounts) == NumbersOf(EmployeeFields(accounts))
TrendsReported == tool = "analyze_account_trends" /\ report # NoReport

\* The lower-middle element of the sorted values: the middle one when their
\* number is odd.
LowerMiddle(xs) == Sorted(xs)[(Len(xs) + 1) \div 2]

\* C17: the medians analyze_account_trends reports are the middle element
\* of the sorted values when their number is odd and the lower-middle
\* element when it is even, so that 10, 20, 30, 40 gives 20.
C17_LowerMedian ==
    TrendsReported =>
        /\ RevenuesOf(records) # <<>> =>
               report.revenue_distribution.median_revenue
                   = LowerMiddle(RevenuesOf(records))
        /\ EmployeesOf(records) # <<>> =>
               report.size_analysis.median_employees
                   = LowerMiddle(EmployeesOf(records))
        /\ RevenuesOf(records) = <<10, 20, 30, 40>> =>
               report.revenue_distribution.median_revenue = 20

\* The records are well formed: every field holds its wrapper.
WellFormed == \A i \in 1..Len(records) : records[i] \in GoodNodes

\* amount x probability of the records as they arrived, in hundredths.
AmountTimesProbability(nodes) ==
    [i \in 1..Len(nodes) |-> nodes[i].Amount.v[1] * nodes[i].Probability.v[1]]

\* C18: the weighted value of a record is amount x probability / 100 with
\* the probability on a scale of 0 to 100 (100000 at 25 gives 25000, that is
\* 2500000 hundredths), and the weighted pipeline value of a report is the
\* sum of the weighted values of its records.
C18_WeightedValue ==
    /\ (tool = "high_value_pipeline_analysis" /\ report # NoReport
            /\ WellFormed) =>
        /\ \A i \in 1..Len(records) :
            /\ report.opportunities[i].weighted_value
                   = records[i].Amount.v[1] * records[i].Probability.v[1]
            /\ (records[i].Amount.v[1] = 100000
                    /\ records[i].Probability.v[1] = 25) =>
                   report.opportunities[i].weighted_value = 25000 * 100
        /\ report.weighted_pipeline_value
               = SumSeq(AmountTimesProbability(records))
    /\ (tool = "complete_pipeline_report" /\ report # NoReport
            /\ WellFormed) =>
        report.weighted_pipeline_value
            = SumSeq(AmountTimesProbability(records))

C18_Witness ==
    /\ tool = "high_value_pipeline_analysis" /\ report # NoReport
    /\ WellFormed /\ Len(records) = 3
    /\ records[1].Amount.v[1] = 100000 /\ records[1].Probability.v[1] = 25
    /\ records[2].Amount.v[1] = 10000 /\ records[2].Probability.v[1] = 50
    /\ report.opportunities[1].weighted_value = 2500000
    /\ report.weighted_pipeline_value
           = 2500000 + 500000
             + records[3].Amount.v[1] * records[3].Probability.v[1]

\* The groups of a breakdown are listed in non-increasing order of value.
NonIncreasing(entries) ==
    \A i \in 1..(Len(entries) - 1) : entries[i].value >= entries[i + 1].value
BreakdownFields == {"by_stage", "by_owner", "by_industry", "stage_analysis"}
BreakdownTools ==
    {"high_value_pipeline_analysis", "sales_stage_analysis",
     "complete_pipeline_report"}

\* C19: in every stage, owner and industry breakdown of
\* high_value_pipeline_analysis, sales_stage_analysis and
\* complete_pipeline_report the groups are listed in non-increasing order of
\* their total value, in whatever order the records arrive.
C19_BreakdownsSorted ==
    (tool \in BreakdownTools /\ report # NoReport /\ report.success) =>
        \A f \in BreakdownFields \cap DOMAIN report : NonIncreasing(report[f])

\* The number of the values xs from lo on and below hi.
NumberFrom(xs, lo, hi) ==
    Cardinality({i \in 1..Len(xs) : lo <= xs[i] /\ xs[i] < hi})
NumberUnder(xs, hi) == Cardinality({i \in 1..Len(xs) : xs[i] < hi})
NumberFromOn(xs, lo) == Cardinality({i \in 1..Len(xs) : lo <= xs[i]})

\* The four counts of ranges add up to n.
AddUpTo(ranges, names, n) ==
    ranges[names[1]] + ranges[names[2]] + ranges[names[3]] + ranges[names[4]]
        = n

\* C20: analyze_account_trends counts every revenue in exactly one of the
\* four bands under 1M, 1M-10M, 10M-100M and over 100M, each lower bound
\* inclusive and each upper bound exclusive, so that the four counts add up
\* to the number of revenues; and the same for the numbers of employees
\* with the breakpoints 50, 500 and 5000.
C20_BandsPartition ==
    TrendsReported =>
        /\ RevenuesOf(records) # <<>> =>
            /\ AddUpTo(report.revenue_distribution.revenue_ranges,
                       RevenueRangeNames, Len(RevenuesOf(records)))
            /\ report.revenue_distribution.revenue_ranges["under_1M"]
                   = NumberUnder(RevenuesOf(records), 1000000)
            /\ report.revenue_distribution.revenue_ranges["1M_10M"]
                   = NumberFrom(RevenuesOf(records), 1000000, 10000000)
            /\ report.revenue_distribution.revenue_ranges["10M_100M"]
                   = NumberFrom(RevenuesOf(records), 10000000, 100000000)
            /\ report.revenue_distribution.revenue_ranges["over_100M"]
                   = NumberFromOn(RevenuesOf(records), 100000000)
        /\ EmployeesOf(records) # <<>> =>
            /\ AddUpTo(report.size_analysis.size_ranges, SizeRangeNames,
                       Len(EmployeesOf(records)))
            /\ report.size_analysis.size_ranges["small_1_50"]
                   = NumberUnder(EmployeesOf(records), 50)
            /\ report.size_analysis.size_ranges["medium_50_500"]
                   = NumberFrom(EmployeesOf(records), 50, 500)
            /\ report.size_analysis.size_ranges["large_500_5000"]
                   = NumberFrom(EmployeesOf(records), 500, 5000)
            /\ report.size_analysis.size_ranges["enterprise_5000+"]
                   = NumberFromOn(EmployeesOf(records), 5000)

C20_Witness ==
    /\ TrendsReported
    /\ RevenuesOf(records) = <<999999, 1000000, 10000000, 100000000>>
    /\ EmployeesOf(records) = <<49, 50, 500, 5000>>
    /\ \A b \in Range(RevenueRangeNames) :
           report.revenue_distribution.revenue_ranges[b] = 1
    /\ \A b \in Range(SizeRangeNames) :
           report.size_analysis.size_ranges[b] = 1

\* The number of requests of the call that are in flight.
InFlight == IF pc = "inflight" THEN 1 ELSE 0

\* C21: a tool call sends at most two requests, only
\* account_opportunity_analysis sends two, and its second request is sent
\* only when the first has been answered: every step posts at most one
\* request and at most one request is in flight.
C21_AtMostTwoInSequence ==
    [][/\ Len(sent') <= 2
       /\ Len(sent') = 2 => tool' = "account_opportunity_analysis"
       /\ Len(sent') <= Len(sent) + 1
       /\ (Len(sent) = 1 /\ Len(sent') = 2) =>
              /\ pc = "inflight" /\ resp' # NoResponse /\ exec'.ok
              /\ SubSeq(sent', 1, 1) = sent
       /\ InFlight' <= 1 /\ InFlight' <= Len(sent')]_vars

\* The second request is in flight, the first one answered.
C21_Witness ==
    /\ tool = "account_opportunity_analysis" /\ pc = "inflight"
    /\ Len(sent) = 2
    /\ sent[1].query = AccountAnalysisQuery
    /\ sent[2].query = OpportunityAnalysisQuery
    /\ resp # NoResponse /\ exec.ok

\* A configuration value is absent; the messages of get_salesforce_client
\* about an absent value.
ConfigurationMissing == env.url = "" \/ env.token = ""
MissingConfigurationMessages ==
    {<<"SALESFORCE_INSTANCE_URL environment variable is required">>,
     <<"SALESFORCE_ACCESS_TOKEN environment variable is required">>}

\* C23: when the endpoint URL or the credential is absent, main fails
\* before any tool is registered or served, so that no tool is ever called
\* and no tool call ends with the error of an absent configuration value.
C23_StartupFailure ==
    /\ ConfigurationMissing =>
           /\ server \in {"starting", "failed"}
           /\ pc = "idle" /\ tool = None /\ sent = <<>>
           /\ salesforce_client = NoClient
    /\ pc = "done" => result.error \notin MissingConfigurationMessages

\* main has failed on an absent credential.
C23_Witness ==
    /\ server = "failed"
    /\ env.url # "" /\ env.token = ""
    /\ pc = "idle" /\ salesforce_client = NoClient

\* The calls that hold a handle.
Holders == {p \in Calls : invocations[p].client # NoClient}

\* C22: however the concurrent calls interleave, at most one
\* SalesforceClient is constructed, every call that gets a handle gets that
\* one object, and the endpoint and the credential of the object never
\* change once it is constructed.
C22_OneClient ==
    [][/\ constructed' <= 1
       /\ \A p \in Holders' :
              /\ invocations'[p].serial = 1
              /\ invocations'[p].client = salesforce_client'
              /\ invocations'[p].url = salesforce_client'.base_url
       /\ salesforce_client' # NoClient =>
              salesforce_client' = SalesforceClient(env.url, env.token)
       /\ salesforce_client # NoClient =>
              salesforce_client' = salesforce_client]_vars

\* Two calls have a request in flight at the same time and a third call has
\* ended; all three were given the one object.
C22_Witness ==
    /\ constructed = 1
    /\ invocations[1].pc = "inflight" /\ invocations[2].pc = "inflight"
    /\ invocations[2].posted = 2
    /\ invocations[3].pc = "done"
    /\ \A p \in Calls : invocations[p].serial = 1

\* execute_custom_graphql was called; its query trimmed; whether the
\* trimmed query names uiapi in some letter case, and whether it has the
\* form of a query.
CustomQueryCalled == tool = "execute_custom_graphql" /\ pc # "idle"
Trimmed == Strip(args.query)
NamesUiapi ==
    \E i \in 1..Len(Trimmed) :
        /\ i + 4 <= Len(Trimmed)
        /\ Lower(SubSeq(Trimmed, i, i + 4)) = S_uiapi
HasQueryForm ==
    /\ \/ StartsWith(Trimmed, S_query)
       \/ StartsWith(Trimmed, S_mutation)
       \/ StartsWith(Trimmed, <<"{">>)
    /\ \E i \in 1..Len(Trimmed) : Trimmed[i] = "{"

\* C24: execute_custom_graphql sends a request, the trimmed query, only if
\* the trimmed query names uiapi in some letter case, starts with query,
\* mutation or a brace and holds an opening brace; otherwise it sends
\* nothing and returns success = false, with the error of the missing uiapi
\* whenever uiapi is missing, and the error of the format otherwise.
C24_CustomQueryValidated ==
    CustomQueryCalled =>
        /\ sent # <<>> <=> (NamesUiapi /\ HasQueryForm)
        /\ sent # <<>> => (Len(sent) = 1 /\ sent[1].query = Trimmed)
        /\ sent = <<>> =>
            /\ pc = "done" /\ result.kind = "return"
            /\ "success" \in result.keys /\ ~result.success
            /\ result.error =
                   IF ~NamesUiapi THEN <<"Query must include 'uiapi' field">>
                   ELSE <<"Invalid GraphQL query format">>

\* A query with neither uiapi nor the form of a query was refused for the
\* missing uiapi.
C24_Witness ==
    /\ CustomQueryCalled /\ args.query = CQ_neither
    /\ pc = "done" /\ sent = <<>>
    /\ result.error = <<"Query must include 'uiapi' field">>

\* The tools that search by a value, and the fields of the values the
\* caller asked for.
SearchTools ==
    {"find_opportunities_by_stage", "search_opportunities",
     "find_accounts_by_industry", "search_accounts"}
RequestedFields ==
    (IF args.stage # <<>> THEN {"StageName:"} ELSE {})
    \cup (IF args.min_amount # <<>> THEN {"Amount:"} ELSE {})
    \cup (IF args.industry # <<>> THEN {"Industry:"} ELSE {})

\* C25: the request of find_opportunities_by_stage, search_opportunities,
\* find_accounts_by_industry and search_accounts restricts the records to
\* the stage, the least amount or the industry the caller asked for: its
\* where argument holds a condition on each of them.
C25_SearchRestricted ==
    (pc = "inflight" /\ tool \in SearchTools /\ RequestedFields # {}) =>
        RequestedFields \subseteq Range(WhereFields(doc.query))

\* sales_stage_analysis was called with a list of stages to exclude that
\* is not empty.
StagesExcluded ==
    /\ tool = "sales_stage_analysis" /\ pc = "inflight"
    /\ args.exclude_stages # <<>> /\ args.exclude_stages[1] # <<>>

\* C26: for every non-empty exclude_stages, of one stage or of several, the
\* request of sales_stage_analysis holds a where argument with a StageName
\* not-equal condition for each stage of the list.
C26_EveryStageExcluded ==
    StagesExcluded =>
        /\ "where:" \in Range(doc.query)
        /\ \A i \in 1..Len(args.exclude_stages[1]) :
               Contains(doc.query, StageNeCondition(args.exclude_stages[1][i]))

\* The sums of the counts, of the values and of the weighted values of the
\* groups of a breakdown.
SumOfCounts(entries) == SumSeq([i \in 1..Len(entries) |-> entries[i].count])
SumOfValues(entries) == SumSeq([i \in 1..Len(entries) |-> entries[i].value])
SumOfWeighted(entries) ==
    SumSeq([i \in 1..Len(entries) |-> entries[i].weighted_value])

\* The groups of a breakdown account for every record of the report.
Accounted(entries) ==
    /\ SumOfCounts(entries) = report.total_opportunities
    /\ SumOfValues(entries) = report.total_pipeline_value

\* C27: in high_value_pipeline_analysis and complete_pipeline_report the
\* counts of the groups of the stage, owner and industry breakdowns add up
\* to total_opportunities and their values to total_pipeline_value; in
\* complete_pipeline_report the weighted values of the stages and of the
\* owners each add up to weighted_pipeline_value and the three counts of
\* deal sizes to total_opportunities.
C27_BreakdownsAddUp ==
    (tool \in {"high_value_pipeline_analysis", "complete_pipeline_report"}
         /\ report # NoReport /\ report.success) =>
        /\ Accounted(report.by_stage)
        /\ Accounted(report.by_owner)
        /\ Accounted(report.by_industry)
        /\ tool = "complete_pipeline_report" =>
            /\ SumOfWeighted(report.by_stage) = report.weighted_pipeline_value
            /\ SumOfWeighted(report.by_owner) = report.weighted_pipeline_value
            /\ report.by_deal_size["Small (<$25k)"]
                   + report.by_deal_size["Medium ($25k-$100k)"]
                   + report.by_deal_size["Large ($100k+)"]
                   = report.total_opportunities

\* A report of three records in two stages, one of them of two records.
C27_Witness ==
    /\ tool = "complete_pipeline_report" /\ report # NoReport
    /\ report.success /\ report.total_opportunities = 3
    /\ Len(report.by_stage) = 2 /\ report.by_stage[1].count = 2
    /\ report.by_stage[1].value = 110000
    /\ report.total_pipeline_value = 120000
    /\ report.by_deal_size["Small (<$25k)"] = 2
    /\ report.by_deal_size["Large ($100k+)"] = 1

\* The this_ period of a last_ period.
ThisOf(rt) ==
    CASE rt = "LAST_WEEK" -> "THIS_WEEK"
      [] rt = "LAST_MONTH" -> "THIS_MONTH"
      [] rt = "LAST_QUARTER" -> "THIS_QUARTER"
      [] rt = "LAST_YEAR" -> "THIS_YEAR"
LastPeriods == {"LAST_WEEK", "LAST_MONTH", "LAST_QUARTER", "LAST_YEAR"}

\* C28: for every reference date the last_ window of week, month, quarter
\* and year ends on the day before the this_ window starts, and is a whole
\* week from Monday to Sunday, a whole calendar month, an aligned quarter or
\* a whole calendar year.
C28_LastBeforeThis ==
    (date_result # NoResult /\ range_type \in LastPeriods) =>
        /\ date_result.ok
        /\ get_date_range(ThisOf(range_type), now).ok
        /\ AddDays(date_result.end, 1)
               = get_date_range(ThisOf(range_type), now).start
        /\ range_type = "LAST_WEEK" =>
               /\ IsMonday(date_result.start)
               /\ ToOrdinal(date_result.end) = ToOrdinal(date_result.start) + 6
        /\ range_type = "LAST_MONTH" =>
               /\ date_result.start.d = 1
               /\ date_result.end.y = date_result.start.y
               /\ date_result.end.m = date_result.start.m
               /\ AddDays(date_result.end, 1).d = 1
        /\ range_type = "LAST_QUARTER" =>
               /\ date_result.start.d = 1
               /\ date_result.start.m \in {1, 4, 7, 10}
               /\ date_result.end.y = date_result.start.y
               /\ date_result.end.m = date_result.start.m + 2
               /\ AddDays(date_result.end, 1).d = 1
        /\ range_type = "LAST_YEAR" =>
               /\ date_result.start = Date(now.y - 1, 1, 1)
               /\ date_result.end = Date(now.y - 1, 12, 31)

\* last_month asked on 31 March 2024 is February 2024, to its 29th day.
C28_Witness ==
    /\ date_result # NoResult /\ date_result.ok
    /\ range_type = "LAST_MONTH"
    /\ now = Date(2024, 3, 31)
    /\ date_result.start_date = "2024-02-01"
    /\ date_result.end_date = "2024-02-29"
    /\ get_date_range("THIS_MONTH", now).start_date = "2024-03-01"

\* The records of the answer that are in stage k, and what they hold.
InStage(k) == {i \in 1..Len(records) : records[i].StageName.v = k}
AmountAt(i) == records[i].Amount.v[1]
ProbabilityAt(i) == records[i].Probability.v[1]
SumInStage(k, xs) ==
    SumSeq([i \in 1..Len(records) |-> IF i \in InStage(k) THEN xs[i] ELSE 0])
KeptWith(top, a) == Cardinality({j \in 1..Len(top) : top[j].amount = a})
InStageWith(k, a) == Cardinality({i \in InStage(k) : AmountAt(i) = a})

\* top_deals holds at most five deals of the stage, largest amount first,
\* and every deal left out is no larger than each deal kept.
TopDealsOfStage(k, top) ==
    /\ Len(top) <= 5
    /\ \A j \in 1..(Len(top) - 1) : top[j].amount >= top[j + 1].amount
    /\ \A j \in 1..Len(top) :
           \E i \in InStage(k) :
               /\ top[j].amount = AmountAt(i)
               /\ top[j].probability = ProbabilityAt(i)
               /\ top[j].name = records[i].Name.v
    /\ \A i \in InStage(k) :
           /\ KeptWith(top, AmountAt(i)) <= InStageWith(k, AmountAt(i))
           /\ KeptWith(top, AmountAt(i)) < InStageWith(k, AmountAt(i)) =>
                  \A j \in 1..Len(top) : top[j].amount >= AmountAt(i)
    /\ Len(top) < 5 => Len(top) = Cardinality(InStage(k))

\* The figures of the stage are those of all its deals.
FiguresOfStage(e) ==
    /\ e.count = Cardinality(InStage(e.key))
    /\ e.value = SumInStage(e.key, [i \in 1..Len(records) |-> AmountAt(i)])
    /\ e.weighted_value
           = SumInStage(e.key, [i \in 1..Len(records) |->
                                   WeightedValue(AmountAt(i), ProbabilityAt(i))])
    /\ e.avg_deal_size.den = e.count
    /\ e.avg_deal_size.num
           = SumInStage(e.key, [i \in 1..Len(records) |-> AmountAt(i)])
    /\ e.avg_probability.den = e.count
    /\ e.avg_probability.num
           = SumInStage(e.key, [i \in 1..Len(records) |-> ProbabilityAt(i)])

StagesReported ==
    /\ tool = "sales_stage_analysis"
    /\ report # NoReport
    /\ report.success

\* C29: in the report of sales_stage_analysis the top_deals of each stage
\* are at most 5 deals in non-increasing order of amount, no deal of the
\* stage left out of them is larger than one of them, and the count, the
\* total value, the weighted value and the averages of the stage are those
\* of all its deals.
C29_TopDealsOfAllDeals ==
    StagesReported =>
        /\ \A i \in 1..Len(records) :
               \E n \in 1..Len(report.stage_analysis) :
                   report.stage_analysis[n].key = records[i].StageName.v
        /\ \A n \in 1..Len(report.stage_analysis) :
               /\ TopDealsOfStage(report.stage_analysis[n].key,
                                  report.stage_analysis[n].top_deals)
               /\ FiguresOfStage(report.stage_analysis[n])

\* Six deals of one stage, the smallest first in the answer: top_deals keeps
\* five and leaves the smallest out, the count stays six.
C29_Witness ==
    /\ StagesReported
    /\ Len(records) = 6
    /\ Cardinality(InStage(<<"Prospecting">>)) = 6
    /\ AmountAt(1) = 10000
    /\ \A i \in 2..6 : AmountAt(i) > 10000
    /\ AmountAt(2) = 50000
    /\ AmountAt(3) = 100000
    /\ Len(report.stage_analysis) = 1
    /\ report.stage_analysis[1].count = 6
    /\ Len(report.stage_analysis[1].top_deals) = 5
    /\ report.stage_analysis[1].top_deals[1].amount = 100000
    /\ report.stage_analysis[1].top_deals[5].amount = 50000

\* The payload of the except branch, with nothing of a report in it.
OnlyFailure(res) ==
    /\ res.kind = "return" /\ ~res.success
    /\ res.keys = {"success", "error", "error_type"}

\* C30: in account_opportunity_analysis, when the account request fails the
\* call ends with a success=false result and the opportunity request is
\* never sent; when the account request succeeds and the opportunity request
\* fails, the call ends with a success=false result that holds nothing of
\* the report.
C30_NoPartialReport ==
    [][tool = "account_opportunity_analysis" =>
          /\ (pc = "inflight" /\ Len(sent) = 1 /\ ~exec'.ok) =>
                 /\ pc' = "done" /\ sent' = sent
                 /\ OnlyFailure(result')
          /\ (pc = "inflight" /\ Len(sent) = 2 /\ ~exec'.ok) =>
                 /\ exec.ok
                 /\ pc' = "done" /\ sent' = sent
                 /\ OnlyFailure(result')
          /\ pc = "done" => (pc' = "idle" /\ sent' = <<>>)]_vars

\* The account request was answered well, the opportunity request failed and
\* the call ended with the failure payload.
C30_Witness ==
    /\ tool = "account_opportunity_analysis" /\ pc = "done"
    /\ Len(sent) = 2
    /\ sent[1].query = AccountAnalysisQuery
    /\ sent[2].query = OpportunityAnalysisQuery
    /\ exec # NoExec /\ ~exec.ok
    /\ OnlyFailure(result)

====
